---------------------------- MODULE Spec2Model ----------------------------
(***************************************************************************)
(* A model of the session controller of CodexMonitor                       *)
(* (src/src/hooks/useSessions.ts): the pure reducer sessionReducer, the    *)
(* helper messagePartsToItems, and the hook useSessions with its event     *)
(* listener and its asynchronous backend calls; and of the hand-off        *)
(* summary (src/unnamed/part_000): the hook useHandoffTldr with its        *)
(* persisted baseline and its idle timer.                                  *)
(*                                                                         *)
(* JavaScript objects are functions whose DOMAIN is the set of keys that   *)
(* are present, so `delete`, `{...a, ...b}` and `x ?? d` keep their         *)
(* meaning.  Strings that only serve as keys or opaque values are TLA+     *)
(* strings; strings the code concatenates (text, content, output) are      *)
(* sequences of tokens, the empty string being << >>.                      *)
(***************************************************************************)
EXTENDS Integers, Sequences, FiniteSets, TLC

VARIABLES
    state,          \* the reducer state (useReducer), a SessionState
    clock,          \* the value Date.now() returns
    workspaceId,    \* activeWorkspace?.id || null, as of the last commit
    subs,           \* the calls of listen() so far: workspace, registration state
    unlistenRef,    \* unlistenRef.current: 0 (null) or the index in subs of its listener
    assistantRef,   \* activeAssistantMessageIdRef.current
    reasoningRef,   \* activeReasoningItemIdRef.current
    inflight,       \* backend calls that were issued and have not completed
    fault,          \* TRUE once a listener invocation raised an exception
    last,           \* history: the last step taken, with the state before it
    toolLog,        \* history: per tool item, what the tool actions asked of it
    underWs,        \* history: the session ids that got state under each workspace
    tornDown,       \* history: the session ids torn down and not re-registered
    previousWorkspaceId, \* history: workspaceId before the last change of workspace
    openTurns,      \* history: per session, the assistant items of the turns that are open
    reasoningLog,   \* history: per session, the reasoning items of this turn and of earlier turns
    nsteps,         \* history: the number of steps taken (bounds the exploration)
    handoff         \* the hook useHandoffTldr: its props, state, refs, timer and store

vars == <<state, clock, workspaceId, subs, unlistenRef, assistantRef, reasoningRef,
          inflight, fault, last, toolLog, underWs, tornDown, previousWorkspaceId,
          openTurns, reasoningLog, nsteps, handoff>>

---------------------------------------------------------------------------
(* Bounds of the exploration. *)

\* the number of steps of one behaviour of the controller
MaxSteps == 4
\* the number of dispatches of one behaviour of the reducer alone
MaxItemSteps == 3
\* the number of listen() calls of one behaviour
MaxSubs == 2

\* the cap on the items of a session: 400 in the source, scaled down here so that
\* the truncation happens within MaxItemSteps dispatches
MAX_ITEMS_PER_SESSION == 2

\* the limits of the listener on a tool's detail and on a diff, in characters
DETAIL_MAX == 4000
DIFF_MAX == 10000

---------------------------------------------------------------------------
(* The values the environment supplies. *)

Workspaces == {"A", "B"}
SessionIds == {"s1", "s2"}
\* item ids that actions carry
ItemIds == {"x", "y"}
\* the text of the n-th step's delta: every delta is a token of its own, so
\* that the order of concatenation shows in the result
Delta(n) == <<"d" \o ToString(n)>>
Statuses == {"pending", "completed"}
Null == "null"

\* plan: null
NullPlan == [isNull |-> TRUE]

---------------------------------------------------------------------------
(* JavaScript objects and arrays. *)

EmptyObj == [k \in {} |-> k]

\* obj[k] ?? d, obj[k] || d
Get(obj, k, d) == IF k \in DOMAIN obj THEN obj[k] ELSE d

\* {...obj, [k]: v}
Put(obj, k, v) == [x \in (DOMAIN obj) \cup {k} |-> IF x = k THEN v ELSE obj[x]]

\* delete obj[k]
Delete(obj, k) == [x \in (DOMAIN obj) \ {k} |-> obj[x]]

\* {...a, ...b}
Spread(a, b) == [f \in (DOMAIN a) \cup (DOMAIN b) |-> IF f \in DOMAIN b THEN b[f] ELSE a[f]]

Min(a, b) == IF a < b THEN a ELSE b
Max(a, b) == IF a > b THEN a ELSE b

\* Array.prototype.slice(start) with one argument
Slice(arr, start) ==
    LET n == Len(arr)
        from == IF start < 0 THEN Max(n + start, 0) ELSE Min(start, n)
    IN  SubSeq(arr, from + 1, n)

\* items.findIndex((i) => i.id === id): 0-based, -1 when there is none
FindIndex(arr, id) ==
    IF \E i \in 1..Len(arr) : arr[i].id = id
    THEN (CHOOSE i \in 1..Len(arr) :
            /\ arr[i].id = id
            /\ \A j \in 1..(i - 1) : arr[j].id # id) - 1
    ELSE -1

\* arr.filter(keep)
RECURSIVE FilterOutId(_, _)
FilterOutId(arr, id) ==
    IF arr = << >> THEN << >>
    ELSE IF Head(arr).id = id THEN FilterOutId(Tail(arr), id)
         ELSE <<Head(arr)>> \o FilterOutId(Tail(arr), id)

\* updated[idx] = v on a copy of arr (idx 0-based)
SetAt(arr, idx, v) == [arr EXCEPT ![idx + 1] = v]


---------------------------------------------------------------------------
(* sessionReducer: one operator per case of the switch.  st is the state   *)
(* before, a the action; an action's optional field is absent from a.      *)

initialState ==
    [ activeSessionIdByWorkspace |-> EmptyObj,
      itemsBySession |-> EmptyObj,
      sessionsByWorkspace |-> EmptyObj,
      sessionStatusById |-> EmptyObj,
      sessionListLoadingByWorkspace |-> EmptyObj,
      planBySession |-> EmptyObj ]

\* (mutant) the append without the truncation
AppendUncapped(items, newItem) == items \o <<newItem>>

\* [...items.slice(-MAX_ITEMS_PER_SESSION + 1), newItem]
AppendCapped(items, newItem) ==
    Slice(items, 1 - MAX_ITEMS_PER_SESSION) \o <<newItem>>

WithItems(st, sessionId, items) ==
    [st EXCEPT !.itemsBySession = Put(st.itemsBySession, sessionId, items)]

setActiveSessionId(st, a) ==
    [st EXCEPT !.activeSessionIdByWorkspace =
        Put(st.activeSessionIdByWorkspace, a.workspaceId, a.sessionId)]

\* (mutant) the summary is appended without looking for the id
ensureSessionAppending(st, a) ==
    LET existing == Get(st.sessionsByWorkspace, a.workspaceId, << >>)
    IN  [st EXCEPT !.sessionsByWorkspace =
            Put(st.sessionsByWorkspace, a.workspaceId,
                existing \o <<[id |-> a.sessionId, title |-> Get(a, "title", "New Session")]>>)]

ensureSession(st, a) ==
    LET existing == Get(st.sessionsByWorkspace, a.workspaceId, << >>)
    IN  IF \E i \in 1..Len(existing) : existing[i].id = a.sessionId
        THEN st
        ELSE [st EXCEPT !.sessionsByWorkspace =
                Put(st.sessionsByWorkspace, a.workspaceId,
                    existing \o <<[id |-> a.sessionId,
                                   title |-> Get(a, "title", "New Session")]>>)]

removeSession(st, a) ==
    LET sessions == Get(st.sessionsByWorkspace, a.workspaceId, << >>)
    IN  [st EXCEPT !.sessionsByWorkspace =
            Put(st.sessionsByWorkspace, a.workspaceId, FilterOutId(sessions, a.sessionId))]

clearWorkspaceSessions(st, a) ==
    LET oldSessions == Get(st.sessionsByWorkspace, a.workspaceId, << >>)
        ids == {oldSessions[i].id : i \in 1..Len(oldSessions)}
        drop(obj) == [k \in (DOMAIN obj) \ ids |-> obj[k]]
    IN  [st EXCEPT
            !.activeSessionIdByWorkspace =
                Put(st.activeSessionIdByWorkspace, a.workspaceId, Null),
            !.sessionsByWorkspace = Put(st.sessionsByWorkspace, a.workspaceId, << >>),
            !.itemsBySession = drop(st.itemsBySession),
            !.sessionStatusById = drop(st.sessionStatusById),
            !.planBySession = drop(st.planBySession)]

\* (mutant) a session that is processing stays so
markProcessingSticky(st, a) ==
    LET entry == Get(st.sessionStatusById, a.sessionId, EmptyObj)
    IN  [st EXCEPT !.sessionStatusById =
            Put(st.sessionStatusById, a.sessionId,
                Spread(entry, [isProcessing |->
                                (a.isProcessing \/ Get(entry, "isProcessing", FALSE))]))]

\* (mutant) the flag is set for every session that has a status
markProcessingAll(st, a) ==
    [st EXCEPT !.sessionStatusById =
        [k \in DOMAIN st.sessionStatusById \cup {a.sessionId} |->
            Spread(Get(st.sessionStatusById, k, EmptyObj),
                   [isProcessing |-> a.isProcessing])]]

\* (mutant) marking a session also drops its items
markProcessingDroppingItems(st, a) ==
    [st EXCEPT !.sessionStatusById =
                Put(st.sessionStatusById, a.sessionId,
                    Spread(Get(st.sessionStatusById, a.sessionId, EmptyObj),
                           [isProcessing |-> a.isProcessing])),
               !.itemsBySession = Delete(st.itemsBySession, a.sessionId)]

\* (mutant) a request to clear the flag is ignored
markProcessingSetOnly(st, a) ==
    IF a.isProcessing
    THEN [st EXCEPT !.sessionStatusById =
            Put(st.sessionStatusById, a.sessionId,
                Spread(Get(st.sessionStatusById, a.sessionId, EmptyObj),
                       [isProcessing |-> TRUE]))]
    ELSE st

markProcessing(st, a) ==
    [st EXCEPT !.sessionStatusById =
        Put(st.sessionStatusById, a.sessionId,
            Spread(Get(st.sessionStatusById, a.sessionId, EmptyObj),
                   [isProcessing |-> a.isProcessing]))]

\* (mutant) the status entry is replaced, not merged
markUnreadReplacing(st, a) ==
    [st EXCEPT !.sessionStatusById =
        Put(st.sessionStatusById, a.sessionId, [hasUnread |-> a.hasUnread])]

markUnread(st, a) ==
    [st EXCEPT !.sessionStatusById =
        Put(st.sessionStatusById, a.sessionId,
            Spread(Get(st.sessionStatusById, a.sessionId, EmptyObj),
                   [hasUnread |-> a.hasUnread]))]

\* `user-${Date.now()}`
UserItemId(now) == "user-" \o ToString(now)

addUserMessage(st, a, now) ==
    LET items == Get(st.itemsBySession, a.sessionId, << >>)
        newItem == [id |-> UserItemId(now), kind |-> "message", role |-> "user",
                    text |-> a.text]
    IN  WithItems(st, a.sessionId, AppendCapped(items, newItem))

appendAssistantDelta(st, a) ==
    LET items == Get(st.itemsBySession, a.sessionId, << >>)
        idx == FindIndex(items, a.itemId)
        newItem == [id |-> a.itemId, kind |-> "message", role |-> "assistant",
                    text |-> a.delta]
        existingItem == items[idx + 1]
    IN  IF idx = -1 THEN WithItems(st, a.sessionId, AppendCapped(items, newItem))
        ELSE IF existingItem.kind # "message" THEN st
        ELSE WithItems(st, a.sessionId,
                SetAt(items, idx, Spread(existingItem,
                                         [text |-> existingItem.text \o a.delta])))

appendReasoningDelta(st, a) ==
    LET items == Get(st.itemsBySession, a.sessionId, << >>)
        idx == FindIndex(items, a.itemId)
        newItem == [id |-> a.itemId, kind |-> "reasoning", summary |-> "Thinking",
                    content |-> a.delta]
        existingItem == items[idx + 1]
    IN  IF idx = -1 THEN WithItems(st, a.sessionId, AppendCapped(items, newItem))
        ELSE IF existingItem.kind # "reasoning" THEN st
        ELSE WithItems(st, a.sessionId,
                SetAt(items, idx, Spread(existingItem,
                    [content |-> Get(existingItem, "content", << >>) \o a.delta])))

\* (mutant) the output is appended whatever the kind of the existing item
appendToolOutputAnyKind(st, a) ==
    LET items == Get(st.itemsBySession, a.sessionId, << >>)
        idx == FindIndex(items, a.itemId)
        newItem == [id |-> a.itemId, kind |-> "tool", toolType |-> "acpToolCall",
                    title |-> "Tool", detail |-> << >>, status |-> "in_progress",
                    output |-> a.delta]
        existingItem == items[idx + 1]
    IN  IF idx = -1 THEN WithItems(st, a.sessionId, AppendCapped(items, newItem))
        ELSE WithItems(st, a.sessionId,
                SetAt(items, idx, Spread(existingItem,
                    [output |-> Get(existingItem, "output", << >>) \o a.delta])))

appendToolOutput(st, a) ==
    LET items == Get(st.itemsBySession, a.sessionId, << >>)
        idx == FindIndex(items, a.itemId)
        newItem == [id |-> a.itemId, kind |-> "tool", toolType |-> "acpToolCall",
                    title |-> "Tool", detail |-> << >>, status |-> "in_progress",
                    output |-> a.delta]
        existingItem == items[idx + 1]
    IN  IF idx = -1 THEN WithItems(st, a.sessionId, AppendCapped(items, newItem))
        ELSE IF existingItem.kind # "tool" THEN st
        ELSE WithItems(st, a.sessionId,
                SetAt(items, idx, Spread(existingItem,
                    [output |-> Get(existingItem, "output", << >>) \o a.delta])))

setToolStatus(st, a) ==
    LET items == Get(st.itemsBySession, a.sessionId, << >>)
        idx == FindIndex(items, a.itemId)
        newItem == [id |-> a.itemId, kind |-> "tool", toolType |-> "acpToolCall",
                    title |-> "Tool", detail |-> << >>, status |-> a.status]
        existingItem == items[idx + 1]
    IN  IF idx = -1 THEN WithItems(st, a.sessionId, AppendCapped(items, newItem))
        ELSE IF existingItem.kind # "tool" THEN st
        ELSE WithItems(st, a.sessionId,
                SetAt(items, idx, Spread(existingItem, [status |-> a.status])))

appendToolChanges(st, a) ==
    LET items == Get(st.itemsBySession, a.sessionId, << >>)
        idx == FindIndex(items, a.itemId)
        newItem == [id |-> a.itemId, kind |-> "tool", toolType |-> "acpToolCall",
                    title |-> "Tool", detail |-> << >>, status |-> "in_progress",
                    changes |-> a.changes]
        existingItem == items[idx + 1]
    IN  IF idx = -1 THEN WithItems(st, a.sessionId, AppendCapped(items, newItem))
        ELSE IF existingItem.kind # "tool" THEN st
        ELSE WithItems(st, a.sessionId,
                SetAt(items, idx, Spread(existingItem,
                    [changes |-> Get(existingItem, "changes", << >>) \o a.changes])))

\* (mutant) the upsert replaces the existing item instead of merging into it
upsertItemReplacing(st, a) ==
    LET items == Get(st.itemsBySession, a.sessionId, << >>)
        idx == FindIndex(items, a.item.id)
    IN  IF idx = -1
        THEN [st EXCEPT !.itemsBySession = Put(st.itemsBySession, a.sessionId,
                Slice(items, 1 - MAX_ITEMS_PER_SESSION) \o <<a.item>>)]
        ELSE [st EXCEPT !.itemsBySession = Put(st.itemsBySession, a.sessionId,
                SetAt(items, idx, a.item))]

upsertItem(st, a) ==
    LET items == Get(st.itemsBySession, a.sessionId, << >>)
        idx == FindIndex(items, a.item.id)
    IN  IF idx = -1 THEN WithItems(st, a.sessionId, AppendCapped(items, a.item))
        ELSE WithItems(st, a.sessionId,
                SetAt(items, idx, Spread(items[idx + 1], a.item)))

setSessionItems(st, a) ==
    WithItems(st, a.sessionId, Slice(a.items, 0 - MAX_ITEMS_PER_SESSION))

setSessions(st, a) ==
    [st EXCEPT !.sessionsByWorkspace =
        Put(st.sessionsByWorkspace, a.workspaceId, a.sessions)]

setSessionListLoading(st, a) ==
    [st EXCEPT !.sessionListLoadingByWorkspace =
        Put(st.sessionListLoadingByWorkspace, a.workspaceId, a.isLoading)]

setSessionPlanMerging(st, a) ==
    LET old == Get(st.planBySession, a.sessionId, NullPlan)
    IN  [st EXCEPT !.planBySession =
            Put(st.planBySession, a.sessionId,
                IF a.plan = NullPlan \/ old = NullPlan THEN a.plan
                ELSE [a.plan EXCEPT !.steps = old.steps \o a.plan.steps])]

setSessionPlan(st, a) ==
    [st EXCEPT !.planBySession = Put(st.planBySession, a.sessionId, a.plan)]

setSessionTitle(st, a) ==
    LET sessions == Get(st.sessionsByWorkspace, a.workspaceId, << >>)
        idx == FindIndex(sessions, a.sessionId)
    IN  IF idx = -1 THEN st
        ELSE [st EXCEPT !.sessionsByWorkspace =
                Put(st.sessionsByWorkspace, a.workspaceId,
                    SetAt(sessions, idx, Spread(sessions[idx + 1], [title |-> a.title])))]

sessionReducer(st, a, now) ==
    CASE a.type = "setActiveSessionId" -> setActiveSessionId(st, a)
      [] a.type = "ensureSession" -> ensureSession(st, a)
      [] a.type = "removeSession" -> removeSession(st, a)
      [] a.type = "clearWorkspaceSessions" -> clearWorkspaceSessions(st, a)
      [] a.type = "markProcessing" -> markProcessing(st, a)
      [] a.type = "markUnread" -> markUnread(st, a)
      [] a.type = "addUserMessage" -> addUserMessage(st, a, now)
      [] a.type = "appendAssistantDelta" -> appendAssistantDelta(st, a)
      [] a.type = "appendReasoningDelta" -> appendReasoningDelta(st, a)
      [] a.type = "appendToolOutput" -> appendToolOutput(st, a)
      [] a.type = "setToolStatus" -> setToolStatus(st, a)
      [] a.type = "appendToolChanges" -> appendToolChanges(st, a)
      [] a.type = "upsertItem" -> upsertItem(st, a)
      [] a.type = "setSessionItems" -> setSessionItems(st, a)
      [] a.type = "setSessions" -> setSessions(st, a)
      [] a.type = "setSessionListLoading" -> setSessionListLoading(st, a)
      [] a.type = "setSessionPlan" -> setSessionPlan(st, a)
      [] a.type = "setSessionTitle" -> setSessionTitle(st, a)
      [] OTHER -> st

\* dispatch of a list of actions in order: the reducer folded over them
RECURSIVE Fold(_, _, _)
Fold(st, actions, now) ==
    IF actions = << >> THEN st
    ELSE Fold(sessionReducer(st, Head(actions), now), Tail(actions), now)

---------------------------------------------------------------------------
(* messagePartsToItems *)

\* text.slice(0, n)
Take(text, n) == SubSeq(text, 1, Min(n, Len(text)))

\* files.join("\n")
RECURSIVE Join(_, _)
Join(files, sep) ==
    IF files = << >> THEN << >>
    ELSE IF Len(files) = 1 THEN <<Head(files)>>
    ELSE <<Head(files), sep>> \o Join(Tail(files), sep)

\* JSON.stringify(input, null, 2): a text that is a function of the input
JsonStringify(input) == <<"json", input>>

PartToItems(messageId, role, part) ==
    CASE part.type = "text" ->
            <<[id |-> messageId \o "-text", kind |-> "message", role |-> role,
               text |-> part.text]>>
      [] part.type = "reasoning" ->
            <<[id |-> messageId \o "-reasoning", kind |-> "reasoning",
               summary |-> Take(part.text, 100), content |-> part.text]>>
      [] part.type = "tool_use" ->
            <<[id |-> part.id, kind |-> "tool", toolType |-> part.name,
               title |-> part.name, detail |-> JsonStringify(part.input),
               status |-> "running"]>>
      [] part.type = "tool_result" ->
            <<[id |-> part.tool_use_id, kind |-> "tool", toolType |-> "result",
               title |-> "Tool Result", detail |-> << >>, output |-> part.content,
               status |-> "completed"]>>
      [] part.type = "patch" ->
            <<[id |-> messageId \o "-patch", kind |-> "diff",
               title |-> "Changes to " \o ToString(Len(part.files)) \o " file(s)",
               diff |-> Join(part.files, "\n"), status |-> "completed"]>>
      [] OTHER -> << >>

RECURSIVE messagePartsToItems(_, _, _)
messagePartsToItems(messageId, role, parts) ==
    IF parts = << >> THEN << >>
    ELSE PartToItems(messageId, role, Head(parts))
            \o messagePartsToItems(messageId, role, Tail(parts))

---------------------------------------------------------------------------
(* The items the controller upserts. *)

\* the item of a tool_call envelope
ToolItem(id, title, detail, status) ==
    [id |-> id, kind |-> "tool", toolType |-> "acpToolCall", title |-> title,
     detail |-> detail, status |-> status]

\* the item sendMessage creates before the send
AssistantItem(id) == [id |-> id, kind |-> "message", role |-> "assistant", text |-> << >>]

---------------------------------------------------------------------------
(* The listener of setupEventListener: what one invocation of the callback   *)
(* does with an envelope.  An envelope is [workspaceId, method] with a       *)
(* field params when the event carries one; params and the records in it     *)
(* hold the fields that are present.  The result is the list of actions the  *)
(* callback dispatches, the two trackers after it, and whether it threw.     *)

\* the value of a missing property
Undefined == "undefined"

\* obj.f for an object obj
Field(obj, f) == Get(obj, f, Undefined)

\* String(obj.f ?? d)
StringOr(obj, f, d) == Get(obj, f, d)

\* text.length > max ? `${text.slice(0, max)}...` : text
Truncate(text, max) == IF Len(text) > max THEN SubSeq(text, 1, max) \o <<"...">> ELSE text

\* what the callback returns with: actions dispatched, trackers
Handled(actions, aRef, rRef) ==
    [fault |-> FALSE, actions |-> actions, assistantRef |-> aRef, reasoningRef |-> rRef]

\* a TypeError from reading a property of undefined: nothing was dispatched yet
Thrown(aRef, rRef) ==
    [fault |-> TRUE, actions |-> << >>, assistantRef |-> aRef, reasoningRef |-> rRef]

\* a record stands for an object; anything else (null, a number) is tagged nonObject
IsObject(v) == "nonObject" \notin DOMAIN v

ToolItemIdWithoutSession(sessionId, toolCallId) == "tool-" \o toolCallId

\* `tool-${targetSessionId}-${toolCallId}`
ToolItemId(sessionId, toolCallId) == "tool-" \o sessionId \o "-" \o toolCallId

\* the actions of one entry of a tool call's content array
ContentEntryActions(sessionId, itemId, entry) ==
    IF ~IsObject(entry) THEN << >>
    ELSE LET contentType == StringOr(entry, "type", "")
         IN  CASE contentType = "content" ->
                    IF "content" \notin DOMAIN entry \/ ~IsObject(entry.content) THEN << >>
                    ELSE IF Field(entry.content, "type") # "text" THEN << >>
                    ELSE IF Get(entry.content, "text", << >>) = << >> THEN << >>
                    ELSE <<[type |-> "appendToolOutput", sessionId |-> sessionId,
                            itemId |-> itemId, delta |-> entry.content.text]>>
               [] contentType = "diff" ->
                    LET path == StringOr(entry, "path", "")
                        oldText == Get(entry, "oldText", << >>)
                        newText == Get(entry, "newText", << >>)
                        diffBody == <<"--- ", path, "\n", "+++ ", path, "\n", "@@", "\n", "-">>
                                        \o oldText \o <<"\n", "+">> \o newText
                    IN  IF path = "" THEN << >>
                        ELSE <<[type |-> "appendToolChanges", sessionId |-> sessionId,
                                itemId |-> itemId,
                                changes |-> <<[path |-> path, kind |-> "MOD",
                                               diff |-> Truncate(diffBody, DIFF_MAX)]>>]>>
               [] contentType = "terminal" ->
                    LET terminalId == StringOr(entry, "terminalId", "")
                    IN  IF terminalId = "" THEN << >>
                        ELSE <<[type |-> "appendToolOutput", sessionId |-> sessionId,
                                itemId |-> itemId,
                                delta |-> <<"\n[terminal:", terminalId, "]\n">>]>>
               [] OTHER -> << >>

RECURSIVE ContentActions(_, _, _)
ContentActions(sessionId, itemId, content) ==
    IF content = << >> THEN << >>
    ELSE ContentEntryActions(sessionId, itemId, Head(content))
            \o ContentActions(sessionId, itemId, Tail(content))

\* updateType tool_call and tool_call_update
ToolCallActions(sessionId, update) ==
    LET toolCallId == StringOr(update, "toolCallId", "")
        itemId == ToolItemId(sessionId, toolCallId)
        title == StringOr(update, "title", "Tool")
        kind == StringOr(update, "kind", "")
        rawInputText == IF "rawInput" \in DOMAIN update
                        THEN JsonStringify(update.rawInput) ELSE << >>
        detailRaw == (IF kind = "" THEN << >> ELSE <<kind>>)
                        \o (IF kind # "" /\ rawInputText # << >> THEN <<"\n">> ELSE << >>)
                        \o rawInputText
        upsert == IF update.sessionUpdate = "tool_call"
                  THEN <<[type |-> "upsertItem", sessionId |-> sessionId,
                          item |-> ToolItem(itemId,
                                            IF kind = "" THEN title ELSE kind \o ": " \o title,
                                            Truncate(detailRaw, DETAIL_MAX),
                                            StringOr(update, "status", "pending"))]>>
                  ELSE << >>
        status == IF "status" \in DOMAIN update /\ update.status # ""
                  THEN <<[type |-> "setToolStatus", sessionId |-> sessionId,
                          itemId |-> itemId, status |-> update.status]>>
                  ELSE << >>
        content == IF "content" \in DOMAIN update /\ IsObject(update.content) = FALSE
                   THEN << >>
                   ELSE IF "content" \in DOMAIN update
                        THEN ContentActions(sessionId, itemId, update.content.list)
                        ELSE << >>
    IN  IF toolCallId = "" THEN << >> ELSE upsert \o status \o content

\* (mutant) the status of an entry is passed through as it came
PlanStepRawStatus(entry) ==
    IF ~IsObject(entry) THEN << >>
    ELSE IF StringOr(entry, "content", "") = "" THEN << >>
    ELSE <<[step |-> entry.content, status |-> StringOr(entry, "status", "pending")]>>

\* one entry of a plan: a step, or nothing
PlanStep(entry) ==
    IF ~IsObject(entry) THEN << >>
    ELSE LET stepContent == StringOr(entry, "content", "")
             statusRaw == StringOr(entry, "status", "pending")
             stepStatus == IF statusRaw = "in_progress" THEN "inProgress"
                           ELSE IF statusRaw = "completed" THEN "completed"
                           ELSE "pending"
         IN  IF stepContent = "" THEN << >>
             ELSE <<[step |-> stepContent, status |-> stepStatus]>>

RECURSIVE PlanSteps(_)
PlanSteps(entries) ==
    IF entries = << >> THEN << >> ELSE PlanStep(Head(entries)) \o PlanSteps(Tail(entries))

\* (mutant) the id of a reasoning item is the same at every minting
ReasoningItemIdFixed(now, n) == "reasoning"

\* `reasoning-${Date.now()}-${Math.random().toString(36).slice(2, 8)}`: the
\* random part differs from call to call
ReasoningItemId(now, n) == "reasoning-" \o ToString(now) \o "-r" \o ToString(n)

\* method session/update
SessionUpdate(data, aRef, rRef, now, n) ==
    LET targetSessionId == StringOr(data, "sessionId", "")
        update == data.update
        updateType == StringOr(update, "sessionUpdate", "")
        content == update.content
        none == Handled(<< >>, aRef, rRef)
    IN  IF targetSessionId = "" THEN none
        ELSE IF "update" \notin DOMAIN data \/ ~IsObject(update) THEN none
        ELSE CASE updateType = "agent_message_chunk" ->
                    IF "content" \notin DOMAIN update \/ ~IsObject(content) THEN none
                    ELSE IF Get(content, "text", << >>) = << >> THEN none
                    ELSE Handled(
                            <<[type |-> "appendAssistantDelta", sessionId |-> targetSessionId,
                               itemId |-> Get(aRef, targetSessionId,
                                              "assistant-" \o targetSessionId),
                               delta |-> content.text]>>, aRef, rRef)
               [] updateType \in {"tool_call", "tool_call_update"} ->
                    Handled(ToolCallActions(targetSessionId, update), aRef, rRef)
               [] updateType = "plan" ->
                    IF "entries" \notin DOMAIN update \/ ~IsObject(update.entries) THEN none
                    ELSE Handled(
                            <<[type |-> "setSessionPlan", sessionId |-> targetSessionId,
                               plan |-> [turnId |-> targetSessionId, explanation |-> "null",
                                         steps |-> PlanSteps(update.entries.list)]]>>,
                            aRef, rRef)
               [] updateType = "agent_thought_chunk" ->
                    IF "content" \notin DOMAIN update \/ ~IsObject(content) THEN none
                    ELSE IF Field(content, "type") # "text" THEN none
                    ELSE IF Get(content, "text", << >>) = << >> THEN none
                    ELSE LET minted == ReasoningItemId(now, n)
                             itemId == Get(rRef, targetSessionId, minted)
                         IN  Handled(
                                <<[type |-> "appendReasoningDelta",
                                   sessionId |-> targetSessionId, itemId |-> itemId,
                                   delta |-> content.text]>>,
                                aRef, Put(rRef, targetSessionId, itemId))
               [] OTHER -> none

\* the callback given to listen(), registered for workspace ws
HandleEvent(ws, env, aRef, rRef, now, n) ==
    IF env.workspaceId # ws THEN Handled(<< >>, aRef, rRef)
    ELSE IF env.method \notin {"session/created", "session/updated", "session/deleted",
                               "session/update", "content/updated", "turn/completed"}
    THEN Handled(<< >>, aRef, rRef)
    ELSE IF "params" \notin DOMAIN env THEN Thrown(aRef, rRef)
    ELSE LET params == env.params
         IN  CASE env.method = "session/created" ->
                    Handled(<<[type |-> "ensureSession", workspaceId |-> ws,
                               sessionId |-> Field(params, "id"),
                               title |-> IF Get(params, "title", "") = ""
                                         THEN "New Session" ELSE params.title]>>, aRef, rRef)
               [] env.method = "session/updated" ->
                    Handled(<<[type |-> "setSessionTitle", workspaceId |-> ws,
                               sessionId |-> Field(params, "id"),
                               title |-> IF Get(params, "title", "") = ""
                                         THEN "Untitled Session" ELSE params.title]>>,
                            aRef, rRef)
               [] env.method = "session/deleted" ->
                    Handled(<<[type |-> "removeSession", workspaceId |-> ws,
                               sessionId |-> Field(params, "sessionId")]>>, aRef, rRef)
               [] env.method = "session/update" ->
                    SessionUpdate(params, aRef, rRef, now, n)
               [] env.method = "content/updated" ->
                    IF Get(params, "text", << >>) = << >> THEN Handled(<< >>, aRef, rRef)
                    ELSE Handled(
                            <<[type |-> "appendAssistantDelta",
                               sessionId |-> Field(params, "sessionId"),
                               itemId |-> IF Get(params, "messageId", "") = ""
                                          THEN "assistant-" \o ToString(now)
                                          ELSE params.messageId,
                               delta |-> params.text]>>, aRef, rRef)
               [] OTHER ->
                    \* turn/completed
                    LET sessionId == Field(params, "sessionId")
                    IN  Handled(<<[type |-> "markProcessing", sessionId |-> sessionId,
                                   isProcessing |-> FALSE]>>,
                                Delete(aRef, sessionId), Delete(rRef, sessionId))

---------------------------------------------------------------------------
(* History of the tool actions.  toolLog holds an entry for <<session, id>>  *)
(* while the session holds an item of that id that a tool action appended    *)
(* and that no upsertItem of another kind and no setSessionItems has         *)
(* addressed since: the status last carried ("unset" when none was), and the *)
(* output deltas and change lists in dispatch order.                         *)

IdsOf(st, sessionId) ==
    LET items == Get(st.itemsBySession, sessionId, << >>)
    IN  {items[i].id : i \in 1..Len(items)}

IsToolAction(a) ==
    \/ a.type \in {"setToolStatus", "appendToolOutput", "appendToolChanges"}
    \/ a.type = "upsertItem" /\ a.item.kind = "tool"

ActionItemId(a) == IF a.type = "upsertItem" THEN a.item.id ELSE a.itemId

EmptyLog == [status |-> "unset", output |-> << >>, changes |-> << >>]

LogApply(entry, a) ==
    CASE a.type = "setToolStatus" -> [entry EXCEPT !.status = a.status]
      [] a.type = "upsertItem" ->
            IF "status" \in DOMAIN a.item THEN [entry EXCEPT !.status = a.item.status]
            ELSE entry
      [] a.type = "appendToolOutput" -> [entry EXCEPT !.output = @ \o a.delta]
      [] a.type = "appendToolChanges" -> [entry EXCEPT !.changes = @ \o a.changes]
      [] OTHER -> entry

LogStep(log, st, a, st2) ==
    LET addressed ==
            IF a.type \in {"setToolStatus", "appendToolOutput", "appendToolChanges",
                           "upsertItem"}
            THEN LET key == <<a.sessionId, ActionItemId(a)>>
                 IN  IF ~IsToolAction(a) THEN Delete(log, key)
                     ELSE IF key[2] \notin IdsOf(st, a.sessionId)
                          THEN Put(log, key, LogApply(EmptyLog, a))
                     ELSE IF key \in DOMAIN log THEN Put(log, key, LogApply(log[key], a))
                     ELSE log
            ELSE IF a.type = "setSessionItems"
            THEN [k \in {k \in DOMAIN log : k[1] # a.sessionId} |-> log[k]]
            ELSE log
    IN  [k \in {k \in DOMAIN addressed : k[2] \in IdsOf(st2, k[1])} |-> addressed[k]]

RECURSIVE LogFold(_, _, _, _)
LogFold(log, st, actions, now) ==
    IF actions = << >> THEN log
    ELSE LET st2 == sessionReducer(st, Head(actions), now)
         IN  LogFold(LogStep(log, st, Head(actions), st2), st2, Tail(actions), now)

---------------------------------------------------------------------------
(* The hand-off summary (src/unnamed/part_000, useHandoffTldr as of its    *)
(* second definition, the one with a baseline): its pure functions.        *)
(* A title is a sequence of characters, a summary is a string, a number    *)
(* that JavaScript may fail to compute is a record with a nan flag.        *)

BASELINE_VERSION == "v2"
\* the idle window, in milliseconds
BASELINE_RESET_MS == 30000
\* clampText(title || fallbackTitle, 40)
TITLE_MAX == 40

\* `handoff:baseline:${BASELINE_VERSION}:${kind}:${workspaceId}:${id}`
baselineKey(kind, ws, id) ==
    "handoff:baseline:" \o BASELINE_VERSION \o ":" \o kind \o ":" \o ws \o ":" \o id

\* the character U+2026
Ellipsis == "..."

\* input.trimStart()
RECURSIVE TrimStart(_)
TrimStart(input) ==
    IF input = << >> THEN << >>
    ELSE IF Head(input) = " " THEN TrimStart(Tail(input))
    ELSE input

\* input.trimEnd()
RECURSIVE TrimEnd(_)
TrimEnd(input) ==
    IF input = << >> THEN << >>
    ELSE IF input[Len(input)] = " " THEN TrimEnd(SubSeq(input, 1, Len(input) - 1))
    ELSE input

clampText(input, maxLen) ==
    LET trimmed == TrimEnd(TrimStart(input))
    IN  IF Len(trimmed) <= maxLen THEN trimmed
        ELSE TrimEnd(SubSeq(trimmed, 1, Max(0, maxLen - 1))) \o <<Ellipsis>>

\* the number of elements of arr that satisfy keep
Count(arr, keep(_)) == Cardinality({i \in 1..Len(arr) : keep(arr[i])})

snapshotActivityAnyRole(items, plan) ==
    LET IsMessage(item) == item.kind = "message"
        IsTool(item) == item.kind = "tool"
        IsDiff(item) == item.kind = "diff"
        IsCompleted(step) == step.status = "completed"
    IN  [messageCount |-> Count(items, IsMessage),
         toolCallCount |-> Count(items, IsTool),
         diffCount |-> Count(items, IsDiff),
         planCompleted |-> IF plan = NullPlan THEN 0
                           ELSE Count(plan.steps, IsCompleted)]

snapshotActivity(items, plan) ==
    LET IsAssistantMessage(item) == item.kind = "message" /\ item.role = "assistant"
        IsTool(item) == item.kind = "tool"
        IsDiff(item) == item.kind = "diff"
        IsCompleted(step) == step.status = "completed"
    IN  [messageCount |-> Count(items, IsAssistantMessage),
         toolCallCount |-> Count(items, IsTool),
         diffCount |-> Count(items, IsDiff),
         planCompleted |-> IF plan = NullPlan THEN 0
                           ELSE Count(plan.steps, IsCompleted)]

\* `${n} ${noun}${n === 1 ? "" : "s"}${rest}`
Clause(n, noun, rest) ==
    ToString(n) \o " " \o noun \o (IF n = 1 THEN "" ELSE "s") \o rest

\* parts.join(", ")
RECURSIVE JoinParts(_)
JoinParts(parts) ==
    IF parts = << >> THEN ""
    ELSE IF Len(parts) = 1 THEN Head(parts)
    ELSE Head(parts) \o ", " \o JoinParts(Tail(parts))

buildCurrentSummary(current) ==
    LET p1 == IF current.planCompleted > 0
              THEN <<Clause(current.planCompleted, "task", " done")>> ELSE << >>
        p2 == p1 \o (IF current.diffCount > 0
                     THEN <<Clause(current.diffCount, "file", " changed")>> ELSE << >>)
        p3 == p2 \o (IF current.messageCount > 0 /\ Len(p2) = 0
                     THEN <<Clause(current.messageCount, "response", "")>> ELSE << >>)
    IN  IF Len(p3) > 0 THEN JoinParts(p3) ELSE "Session active"

\* useState<HandoffBaseline | null>(null)
NullBaseline == [isNull |-> TRUE]

\* what a function returns, or the exception it raises
Value(v) == [value |-> v]
TypeError == [threw |-> "TypeError"]

ZeroDeltaSummaryApprovalFirst(isProcessing, hasPendingApproval) ==
    IF hasPendingApproval THEN "Waiting for approval"
    ELSE IF isProcessing THEN "Working" \o Ellipsis
    ELSE "No new activity"

\* the summary when all four deltas are zero
ZeroDeltaSummary(isProcessing, hasPendingApproval) ==
    IF isProcessing THEN "Working" \o Ellipsis
    ELSE IF hasPendingApproval THEN "Waiting for approval"
    ELSE "No new activity"

\* buildSummary from its third statement on: the summary against a baseline
DeltaSummary(params) ==
    LET \* a - obj[k] is NaN when obj[k] is undefined; NaN === 0 and NaN > 0 are false
        Minus(a, obj, k) == IF k \in DOMAIN obj THEN [nan |-> FALSE, n |-> a - obj[k]]
                            ELSE [nan |-> TRUE, n |-> 0]
        IsZero(d) == ~d.nan /\ d.n = 0
        IsPositive(d) == ~d.nan /\ d.n > 0
        baseline == params.baseline
        current == params.current
        msgDelta == Minus(current.messageCount, baseline.activity, "messageCount")
        toolDelta == Minus(current.toolCallCount, baseline.activity, "toolCallCount")
        diffDelta == Minus(current.diffCount, baseline.activity, "diffCount")
        planDelta == Minus(current.planCompleted, baseline.activity, "planCompleted")
        p1 == IF IsPositive(planDelta)
              THEN <<Clause(planDelta.n, "task", " done")>> ELSE << >>
        p2 == p1 \o (IF IsPositive(diffDelta)
                     THEN <<Clause(diffDelta.n, "file", " changed")>> ELSE << >>)
        p3 == p2 \o (IF IsPositive(toolDelta) /\ IsZero(diffDelta)
                     THEN <<Clause(toolDelta.n, "action", "")>> ELSE << >>)
        parts == p3 \o (IF IsPositive(msgDelta) /\ Len(p3) = 0
                        THEN <<Clause(msgDelta.n, "response", "")>> ELSE << >>)
    IN  IF "activity" \notin DOMAIN baseline THEN TypeError
        ELSE IF IsZero(msgDelta) /\ IsZero(toolDelta) /\ IsZero(diffDelta)
                /\ IsZero(planDelta)
             THEN Value(ZeroDeltaSummary(params.isProcessing, params.hasPendingApproval))
        ELSE IF Len(parts) = 0
             THEN Value(IF params.isProcessing THEN "Working" \o Ellipsis ELSE "Caught up")
        ELSE Value(JoinParts(parts))

buildSummaryWithoutItemsCheck(params) ==
    IF params.baseline = NullBaseline THEN Value(buildCurrentSummary(params.current))
    ELSE DeltaSummary(params)

buildSummary(params) ==
    IF ~params.hasItems THEN Value(Null)
    ELSE IF params.baseline = NullBaseline THEN Value(buildCurrentSummary(params.current))
    ELSE DeltaSummary(params)

\* tldr: null
NullTldr == [isNull |-> TRUE]

\* "Session", "Thread"
FallbackSession == <<"S", "e", "s", "s", "i", "o", "n">>
FallbackThread == <<"T", "h", "r", "e", "a", "d">>

tldrStatusProcessingFirst(hasItems, hasPendingApproval, isProcessing) ==
    IF ~hasItems THEN "new"
    ELSE IF isProcessing THEN "working"
    ELSE IF hasPendingApproval THEN "waiting-approval"
    ELSE "idle"

\* the status the memo derives
tldrStatus(hasItems, hasPendingApproval, isProcessing) ==
    IF ~hasItems THEN "new"
    ELSE IF hasPendingApproval THEN "waiting-approval"
    ELSE IF isProcessing THEN "working"
    ELSE "idle"

\* the memo tldr of the props p (title absent: title null) and the baseline
tldr(p, baseline) ==
    LET fallbackTitle == IF p.kind = "session" THEN FallbackSession ELSE FallbackThread
        title == Get(p, "title", << >>)
        resolvedTitle == clampText(IF title = << >> THEN fallbackTitle ELSE title,
                                   TITLE_MAX)
        hasItems == Len(p.items) > 0
        current == snapshotActivity(p.items, p.plan)
        summary == buildSummary([baseline |-> baseline, current |-> current,
                                 isProcessing |-> p.isProcessing,
                                 hasPendingApproval |-> p.hasPendingApproval,
                                 hasItems |-> hasItems])
    IN  IF p.workspaceId = Null \/ p.id = Null THEN Value(NullTldr)
        ELSE IF "threw" \in DOMAIN summary THEN summary
        ELSE Value([kind |-> p.kind, title |-> resolvedTitle, summary |-> summary.value,
                    status |-> tldrStatus(hasItems, p.hasPendingApproval,
                                          p.isProcessing)])

---------------------------------------------------------------------------
(* The hook useHandoffTldr: its state, its effects, its idle timer.        *)
(* localStorage maps a key to a text; a JSON text is written as the        *)
(* object it denotes with every number in decimal digits.                  *)

\* String(n) for n >= 0, as its digits
RECURSIVE Decimal(_)
Decimal(n) == IF n < 10 THEN <<n>> ELSE Decimal(n \div 10) \o <<n % 10>>

\* Number(digits)
RECURSIVE ParseDecimal(_)
ParseDecimal(ds) ==
    IF Len(ds) = 1 THEN ds[1]
    ELSE ParseDecimal(SubSeq(ds, 1, Len(ds) - 1)) * 10 + ds[Len(ds)]

\* localStorage.getItem(key) of a key that is not there
NoText == [isNull |-> TRUE]
\* the text ""
EmptyText == [empty |-> TRUE]
\* a text that is not JSON
InvalidText == [invalid |-> TRUE]
\* the text "null"
NullText == [null |-> TRUE]

\* JSON.stringify(baselineValue)
JsonStringifyBaseline(b) ==
    [object |-> [openedAt |-> Decimal(b.openedAt),
                 activity |-> [k \in DOMAIN b.activity |-> Decimal(b.activity[k])]]]

SyntaxError == [threw |-> "SyntaxError"]

\* JSON.parse(stored) of a text that holds null, or an object whose fields are
\* numbers but for activity, an object of numbers
JsonParse(text) ==
    IF "invalid" \in DOMAIN text \/ "empty" \in DOMAIN text THEN SyntaxError
    ELSE IF "null" \in DOMAIN text THEN Value(NullBaseline)
    ELSE Value([k \in DOMAIN text.object |->
                  IF k = "activity"
                  THEN [j \in DOMAIN text.object[k] |-> ParseDecimal(text.object[k][j])]
                  ELSE ParseDecimal(text.object[k])])

\* the store works, or every access throws, or every write throws
StoreModes == {"ok", "unavailable", "full"}

\* setTimeout was not called, or its timer was cleared or has fired
NoTimer == << >>

CaptureWithoutPlan(h, now) ==
    [openedAt |-> now, activity |-> snapshotActivity(h.latestItemsRef, NullPlan)]

\* the value both the load effect and the timer capture
Capture(h, now) ==
    [openedAt |-> now, activity |-> snapshotActivity(h.latestItemsRef, h.latestPlanRef)]

\* the effect on [kind, workspaceId, id]: the baseline, the store and whether
\* the effect raised
LoadBaseline(h, p, now) ==
    LET key == baselineKey(p.kind, p.workspaceId, p.id)
        stored == Get(h.store, key, NoText)
        parsed == JsonParse(stored)
        baselineValue == Capture(h, now)
    IN  IF p.workspaceId = Null \/ p.id = Null
        THEN [baseline |-> NullBaseline, store |-> h.store, threw |-> FALSE]
        ELSE IF h.storeMode = "unavailable"
        THEN [baseline |-> h.baseline, store |-> h.store, threw |-> TRUE]
        ELSE IF stored # NoText /\ stored # EmptyText /\ "threw" \notin DOMAIN parsed
        THEN [baseline |-> parsed.value, store |-> h.store, threw |-> FALSE]
        ELSE IF h.storeMode = "full"
        THEN [baseline |-> h.baseline, store |-> h.store, threw |-> TRUE]
        ELSE [baseline |-> baselineValue,
              store |-> Put(h.store, key, JsonStringifyBaseline(baselineValue)),
              threw |-> FALSE]

\* (mutant) the timer is armed with no delay
ArmTimerAtOnce(p, now) ==
    IF p.workspaceId = Null \/ p.id = Null THEN NoTimer
    ELSE <<[due |-> now, kind |-> p.kind, workspaceId |-> p.workspaceId, id |-> p.id]>>

\* the effect on [kind, workspaceId, id, items, plan]: the timer it arms
ArmTimer(p, now) ==
    IF p.workspaceId = Null \/ p.id = Null THEN NoTimer
    ELSE <<[due |-> now + BASELINE_RESET_MS, kind |-> p.kind,
            workspaceId |-> p.workspaceId, id |-> p.id]>>

Identity(p) == <<p.kind, p.workspaceId, p.id>>

\* a render with the props p and what follows it.  The memo is computed with
\* the baseline of the last render; if it raises, nothing is committed and
\* the component is unmounted, which clears the timer.  Otherwise the effects
\* run in the order of their declaration, each when one of its dependencies
\* changed (newItems, newPlan: the array or the plan is another object than
\* at the last render), and setBaseline renders once more.  An effect that
\* raises unmounts the component as well.  storeBefore, loadRan, changedAt,
\* fires and firedKey are history: the store before the step, whether the
\* load effect ran, the time of the last render with another identity, items
\* array or plan, the number of timer callbacks since, and the key the last
\* callback wrote to.
Commit(h, p, identityChanged, newItems, newPlan, now) ==
    LET first == tldr(p, h.baseline)
        h1 == [h EXCEPT !.props = p,
                        !.latestItemsRef = IF newItems THEN p.items ELSE @,
                        !.latestPlanRef = IF newPlan THEN p.plan ELSE @]
        loaded == IF identityChanged THEN LoadBaseline(h1, p, now)
                  ELSE [baseline |-> h.baseline, store |-> h.store, threw |-> FALSE]
        timer == IF identityChanged \/ newItems \/ newPlan THEN ArmTimer(p, now)
                 ELSE h.timer
        memo == tldr(p, loaded.baseline)
        threw == loaded.threw \/ "threw" \in DOMAIN memo
        changed == identityChanged \/ newItems \/ newPlan
    IN  IF "threw" \in DOMAIN first
        THEN [h EXCEPT !.props = p, !.timer = NoTimer, !.tldr = first,
                       !.frames = <<first>>, !.fault = TRUE, !.mounted = FALSE,
                       !.storeBefore = h.store, !.loadRan = FALSE,
                       !.changedAt = IF changed THEN now ELSE @,
                       !.fires = IF changed THEN 0 ELSE @,
                       !.op = "render"]
        ELSE [h1 EXCEPT !.baseline = loaded.baseline,
                        !.store = loaded.store,
                        !.timer = IF threw THEN NoTimer ELSE timer,
                        !.tldr = memo,
                        !.frames = IF loaded.baseline = h.baseline THEN <<first>>
                                   ELSE <<first, memo>>,
                        !.fault = @ \/ threw,
                        !.mounted = ~threw,
                        !.storeBefore = h.store,
                        !.loadRan = identityChanged,
                        !.changedAt = IF changed THEN now ELSE @,
                        !.fires = IF changed THEN 0 ELSE @,
                        !.op = "render"]

\* the first render and its effects
Mount(p, store, storeMode, now) ==
    LET h0 == [props |-> p, baseline |-> NullBaseline, latestItemsRef |-> p.items,
               latestPlanRef |-> p.plan, store |-> store, storeMode |-> storeMode,
               timer |-> NoTimer, tldr |-> Value(NullTldr), frames |-> << >>,
               fault |-> FALSE, mounted |-> TRUE, storeBefore |-> store,
               loadRan |-> FALSE, changedAt |-> now, fires |-> 0,
               firedKey |-> NoText, op |-> "mount"]
    IN  [Commit(h0, p, TRUE, TRUE, TRUE, now) EXCEPT !.op = "mount"]

\* the callback of setTimeout: an exception of setItem leaves the callback
\* before setBaseline
TimerFired(h, now) ==
    LET t == h.timer[1]
        key == baselineKey(t.kind, t.workspaceId, t.id)
        baselineValue == Capture(h, now)
        threw == h.storeMode # "ok"
        baseline == IF threw THEN h.baseline ELSE baselineValue
        memo == tldr(h.props, baseline)
    IN  [h EXCEPT !.baseline = baseline,
                  !.store = IF threw THEN @
                            ELSE Put(@, key, JsonStringifyBaseline(baselineValue)),
                  !.timer = NoTimer,
                  !.tldr = memo,
                  !.frames = IF baseline = h.baseline THEN << >> ELSE <<memo>>,
                  !.fault = @ \/ threw \/ "threw" \in DOMAIN memo,
                  !.mounted = "threw" \notin DOMAIN memo,
                  !.storeBefore = h.store,
                  !.loadRan = FALSE,
                  !.fires = @ + 1,
                  !.firedKey = key,
                  !.op = "timer"]

\* the props of a caller that has no workspace
NoProps ==
    [workspaceId |-> Null, kind |-> "session", id |-> Null, items |-> << >>,
     plan |-> NullPlan, isProcessing |-> FALSE, hasPendingApproval |-> FALSE]

---------------------------------------------------------------------------
(* The initial state: the hook as first rendered, no workspace selected. *)

Init ==
    /\ state = initialState
    /\ clock = 0
    /\ workspaceId = Null
    /\ subs = << >>
    /\ unlistenRef = 0
    /\ assistantRef = EmptyObj
    /\ reasoningRef = EmptyObj
    /\ inflight = {}
    /\ fault = FALSE
    /\ last = [op |-> "init", actions |-> << >>, now |-> 0, before |-> initialState,
               ws |-> Null, arg |-> Null, refs |-> <<EmptyObj, EmptyObj>>,
               result |-> [none |-> TRUE]]
    /\ toolLog = EmptyObj
    /\ underWs = [w \in Workspaces |-> {}]
    /\ tornDown = {}
    /\ previousWorkspaceId = Null
    /\ openTurns = EmptyObj
    /\ reasoningLog = EmptyObj
    /\ nsteps = 0
    /\ handoff = Mount(NoProps, EmptyObj, "ok", 0)

\* what the step that is being taken did: its name, the actions it dispatched,
\* the workspace it ran for, its input, and the state and trackers before it
\* a step that returned nothing to a caller
NoResult == [none |-> TRUE]

Last(op, actions, ws, arg) ==
    [op |-> op, actions |-> actions, now |-> clock, before |-> state, ws |-> ws,
     arg |-> arg, refs |-> <<assistantRef, reasoningRef>>, result |-> NoResult]

\* Date.now() advances (by one millisecond) between two steps
Ticking ==
    /\ nsteps' = nsteps + 1
    /\ clock' = clock + 1
    /\ last' = Last("tick", << >>, Null, Null)
    /\ UNCHANGED <<state, workspaceId, subs, unlistenRef, assistantRef, reasoningRef,
                   inflight, fault, toolLog, underWs, tornDown, previousWorkspaceId,
                   openTurns, reasoningLog, handoff>>

---------------------------------------------------------------------------
(* The reducer under arbitrary dispatches of the item actions (the hook      *)
(* returns dispatch to its caller): every action stream the controller can   *)
(* produce on the items of a session is one of these.                        *)

ControllerVars == <<workspaceId, subs, unlistenRef, assistantRef, reasoningRef,
                    inflight, fault, underWs, tornDown, previousWorkspaceId, openTurns,
                    reasoningLog, handoff>>

DispatchOne(a) ==
    /\ nsteps' = nsteps + 1
    /\ state' = sessionReducer(state, a, clock)
    /\ toolLog' = LogStep(toolLog, state, a, state')
    /\ last' = Last("dispatch", <<a>>, Null, Null)
    /\ UNCHANGED <<clock, ControllerVars>>

\* the change list of the n-th step
Changes(n) == <<[path |-> "p" \o ToString(n), kind |-> "MOD", diff |-> Delta(n)]>>

Part(t) ==
    CASE t = "text" -> [type |-> "text", text |-> <<"a">>]
      [] t = "reasoning" -> [type |-> "reasoning", text |-> <<"r">>]
      [] t = "tool_use" -> [type |-> "tool_use", id |-> "x", name |-> "bash", input |-> "in"]
      [] t = "tool_result" -> [type |-> "tool_result", tool_use_id |-> "x", content |-> <<"o">>]
      [] t = "patch" -> [type |-> "patch", files |-> <<"f", "g">>]
      [] OTHER -> [type |-> "file"]

\* the part lists of the messages that are loaded, by number
PartListIds == 1..5

PartList(i) ==
    CASE i = 1 -> << >>
      [] i = 2 -> <<Part("text"), Part("reasoning"), Part("patch")>>
      [] i = 3 -> <<Part("tool_use"), Part("tool_result")>>
      [] i = 4 -> <<Part("text"), Part("file"), Part("text")>>
      [] OTHER -> <<Part("reasoning"), Part("tool_use"), Part("patch"), Part("text")>>

DispatchAddUserMessage ==
    \E s \in SessionIds :
        /\ nsteps < MaxItemSteps
        /\ DispatchOne([type |-> "addUserMessage", workspaceId |-> "A", sessionId |-> s,
                     text |-> <<"u">>])

DispatchAppendAssistantDelta ==
    \E s \in SessionIds, x \in ItemIds :
        /\ nsteps < MaxItemSteps
        /\ DispatchOne([type |-> "appendAssistantDelta", sessionId |-> s, itemId |-> x,
                     delta |-> Delta(nsteps)])

DispatchAppendReasoningDelta ==
    \E s \in SessionIds, x \in ItemIds :
        /\ nsteps < MaxItemSteps
        /\ DispatchOne([type |-> "appendReasoningDelta", sessionId |-> s, itemId |-> x,
                     delta |-> Delta(nsteps)])

DispatchAppendToolOutput ==
    \E s \in SessionIds, x \in ItemIds :
        /\ nsteps < MaxItemSteps
        /\ DispatchOne([type |-> "appendToolOutput", sessionId |-> s, itemId |-> x,
                     delta |-> Delta(nsteps)])

DispatchSetToolStatus ==
    \E s \in SessionIds, x \in ItemIds, status \in Statuses :
        /\ nsteps < MaxItemSteps
        /\ DispatchOne([type |-> "setToolStatus", sessionId |-> s, itemId |-> x,
                     status |-> status])

DispatchAppendToolChanges ==
    \E s \in SessionIds, x \in ItemIds :
        /\ nsteps < MaxItemSteps
        /\ DispatchOne([type |-> "appendToolChanges", sessionId |-> s, itemId |-> x,
                     changes |-> Changes(nsteps)])

\* the items the controller upserts: a tool_call's item, sendMessage's item
UpsertedItems(x) ==
    {ToolItem(x, "run", << >>, status) : status \in Statuses} \cup {AssistantItem(x)}

DispatchUpsertItem ==
    \E s \in SessionIds, x \in ItemIds :
        /\ nsteps < MaxItemSteps
        /\ \E item \in UpsertedItems(x) :
                DispatchOne([type |-> "upsertItem", sessionId |-> s, item |-> item])

DispatchSetSessionItems ==
    \E s \in SessionIds, i \in PartListIds :
        /\ nsteps < MaxItemSteps
        /\ DispatchOne([type |-> "setSessionItems", sessionId |-> s,
                     items |-> messagePartsToItems("m1", "assistant", PartList(i))])

TickItems ==
    /\ nsteps < MaxItemSteps
    /\ Ticking

NextItems ==
    \/ TickItems
    \/ DispatchAddUserMessage
    \/ DispatchAppendAssistantDelta
    \/ DispatchAppendReasoningDelta
    \/ DispatchAppendToolOutput
    \/ DispatchSetToolStatus
    \/ DispatchAppendToolChanges
    \/ DispatchUpsertItem
    \/ DispatchSetSessionItems

SpecItems == Init /\ [][NextItems]_vars

---------------------------------------------------------------------------
(* The claims about the item sequences, under SpecItems. *)

ItemsOf(st, sessionId) == Get(st.itemsBySession, sessionId, << >>)

\* the positions of the items with the id in the sequence
PositionsOf(items, id) == {i \in DOMAIN items : items[i].id = id}

\* the id of the item an item action appends or updates
TouchedId(a, now) ==
    CASE a.type = "addUserMessage" -> UserItemId(now)
      [] a.type = "upsertItem" -> a.item.id
      [] OTHER -> a.itemId

TouchingTypes ==
    {"addUserMessage", "appendAssistantDelta", "appendReasoningDelta", "appendToolOutput",
     "appendToolChanges", "setToolStatus", "upsertItem"}

\* C1: after any item action every session holds at most MAX_ITEMS_PER_SESSION
\* items, and the item the action appended or updated is in the sequence of its
\* session.
C1_CapAndPresence ==
    /\ \A s \in DOMAIN state.itemsBySession :
            Len(state.itemsBySession[s]) <= MAX_ITEMS_PER_SESSION
    /\ last.op = "dispatch" =>
            LET a == last.actions[1]
            IN  a.type \in TouchingTypes =>
                    TouchedId(a, last.now) \in IdsOf(state, a.sessionId)

\* an item action appended a new item to a session that was at the cap
C1_Witness ==
    /\ last.op = "dispatch"
    /\ LET a == last.actions[1]
       IN  /\ a.type \in TouchingTypes
           /\ Len(ItemsOf(last.before, a.sessionId)) = MAX_ITEMS_PER_SESSION
           /\ TouchedId(a, last.now) \notin IdsOf(last.before, a.sessionId)
           /\ Len(ItemsOf(state, a.sessionId)) = MAX_ITEMS_PER_SESSION
           /\ ItemsOf(state, a.sessionId)[MAX_ITEMS_PER_SESSION].id = TouchedId(a, last.now)

C3_IdsDistinct ==
    \A s \in DOMAIN state.itemsBySession :
        LET items == state.itemsBySession[s]
        IN  \A i, j \in 1..Len(items) : i # j => items[i].id # items[j].id


\* s is a prefix of t
IsPrefix(s, t) == Len(s) <= Len(t) /\ SubSeq(t, 1, Len(s)) = s

\* the text that grows: text of a message, content of a reasoning item
GrowingText(item) == IF item.kind = "message" THEN item.text ELSE item.content

\* C18: for every reducer action other than setSessionItems and
\* clearWorkspaceSessions, a message or reasoning item that is in the sequence
\* of a session before and after the action has its earlier text as a prefix
\* of its later text.
C18_TextOnlyGrows ==
    \A k \in DOMAIN last.actions :
        last.actions[k].type \notin {"setSessionItems", "clearWorkspaceSessions"} =>
            \A s \in DOMAIN last.before.itemsBySession :
                LET old == ItemsOf(last.before, s)
                    new == ItemsOf(state, s)
                IN  \A i \in DOMAIN old, j \in DOMAIN new :
                        (/\ old[i].id = new[j].id
                         /\ Cardinality(PositionsOf(old, old[i].id)) = 1
                         /\ Cardinality(PositionsOf(new, new[j].id)) = 1
                         /\ old[i].kind \in {"message", "reasoning"}
                         /\ new[j].kind = old[i].kind)
                        => IsPrefix(GrowingText(old[i]), GrowingText(new[j]))

---------------------------------------------------------------------------
(* The controller useSessions: the effect that follows the active workspace, *)
(* the listener it registers, and the five operations it returns.            *)

\* the session ids the actions carry
RECURSIVE SessionsOf(_)
SessionsOf(actions) ==
    IF actions = << >> THEN {}
    ELSE LET a == Head(actions)
             here == IF a.type = "setSessions"
                     THEN {a.sessions[i].id : i \in DOMAIN a.sessions}
                     ELSE IF "sessionId" \in DOMAIN a /\ a.sessionId # Null
                     THEN {a.sessionId}
                     ELSE {}
         IN  here \cup SessionsOf(Tail(actions))

\* the session ids whose state was torn down and that were not registered again
RECURSIVE TornFold(_, _, _, _)
TornFold(torn, st, actions, now) ==
    IF actions = << >> THEN torn
    ELSE LET a == Head(actions)
             listed == Get(st.sessionsByWorkspace, a.workspaceId, << >>)
             torn2 ==
                CASE a.type = "clearWorkspaceSessions" ->
                        torn \cup {listed[i].id : i \in DOMAIN listed}
                  [] a.type = "removeSession" -> torn \cup {a.sessionId}
                  [] a.type = "ensureSession" -> torn \ {a.sessionId}
                  [] a.type = "setSessions" ->
                        torn \ {a.sessions[i].id : i \in DOMAIN a.sessions}
                  [] OTHER -> torn
         IN  TornFold(torn2, sessionReducer(st, a, now), Tail(actions), now)

\* one step of the controller run for workspace ws: the actions go through the
\* reducer in order
\* the steps in which a backend call returns
ReturnOps ==
    {"startSessionReturns", "sendMessageReturns", "cancelReturns", "refreshSessionsReturns"}

\* `assistant-${Date.now()}-${Math.random().toString(36).slice(2, 8)}`: the
\* random part differs from call to call
AssistantItemId(now, n) == "assistant-" \o ToString(now) \o "-r" \o ToString(n)

\* History of the turns.  openTurns[s] lists, oldest first, the assistant items
\* that the calls of sendMessage on s pre-created and whose turn is open: the
\* send was not rejected, no turn/completed for s has closed it and no cancel
\* of s has succeeded since.  A turn/completed for s closes the oldest open
\* turn of s.
TurnStep(turns, op, arg, actions) ==
    CASE op = "sendMessage" /\ actions # << >> ->
            LET i == CHOOSE j \in DOMAIN actions : actions[j].type = "upsertItem"
            IN  Put(turns, arg, Append(Get(turns, arg, << >>), actions[i].item.id))
      [] op = "sendMessageReturns" /\ actions # << >> ->
            LET id == AssistantItemId(arg.at, arg.n)
                Keep(x) == x # id
            IN  Put(turns, arg.sessionId,
                    SelectSeq(Get(turns, arg.sessionId, << >>), Keep))
      [] op = "deliver" /\ actions # << >> /\ arg.method = "turn/completed" ->
            LET s == actions[1].sessionId
                open == Get(turns, s, << >>)
            IN  IF open = << >> THEN turns ELSE Put(turns, s, Tail(open))
      [] op = "cancelReturns" /\ actions # << >> ->
            Put(turns, arg.sessionId, << >>)
      [] OTHER -> turns

\* History of the reasoning items.  reasoningLog[s].cur holds the ids of the
\* items that the reasoning chunks of s were appended to since the last
\* sendMessage on s or turn/completed for s; reasoningLog[s].past holds the
\* ids used before that.
NoReasoning == [cur |-> {}, past |-> {}]

ReasoningStep(log, op, arg, actions) ==
    CASE op = "sendMessage" /\ actions # << >> ->
            LET e == Get(log, arg, NoReasoning)
            IN  Put(log, arg, [cur |-> {}, past |-> e.past \cup e.cur])
      [] op = "deliver" /\ actions # << >> /\ arg.method = "turn/completed" ->
            LET s == actions[1].sessionId
                e == Get(log, s, NoReasoning)
            IN  Put(log, s, [cur |-> {}, past |-> e.past \cup e.cur])
      [] op = "deliver" /\ actions # << >> /\ arg.method = "session/update"
         /\ actions[1].type = "appendReasoningDelta" ->
            LET s == actions[1].sessionId
                e == Get(log, s, NoReasoning)
            IN  Put(log, s, [e EXCEPT !.cur = @ \cup {actions[1].itemId}])
      [] OTHER -> log

RunWith(op, ws, arg, actions, aRef, rRef, threw, result) ==
    /\ nsteps' = IF op \in ReturnOps THEN nsteps ELSE nsteps + 1
    /\ state' = Fold(state, actions, clock)
    /\ toolLog' = LogFold(toolLog, state, actions, clock)
    /\ assistantRef' = aRef
    /\ reasoningRef' = rRef
    /\ fault' = (fault \/ threw)
    /\ underWs' = IF ws = Null THEN underWs
                  ELSE [underWs EXCEPT ![ws] = @ \cup SessionsOf(actions)]
    /\ tornDown' = TornFold(tornDown, state, actions, clock)
    /\ previousWorkspaceId' = IF op = "changeWorkspace" THEN arg ELSE previousWorkspaceId
    /\ openTurns' = TurnStep(openTurns, op, arg, actions)
    /\ reasoningLog' = ReasoningStep(reasoningLog, op, arg, actions)
    /\ last' = [Last(op, actions, ws, arg) EXCEPT !.result = result]
    /\ UNCHANGED <<clock, handoff>>

Run(op, ws, arg, actions, aRef, rRef, threw) ==
    RunWith(op, ws, arg, actions, aRef, rRef, threw, NoResult)

\* state.activeSessionIdByWorkspace[workspaceId] ?? null
activeSessionId == Get(state.activeSessionIdByWorkspace, workspaceId, Null)

\* the ids of the summaries listed for the workspace
ListedIds(st, ws) ==
    LET listed == Get(st.sessionsByWorkspace, ws, << >>)
    IN  {listed[i].id : i \in DOMAIN listed}

\* unlistenRef.current(): the listener stops receiving
Released(i) == [subs EXCEPT ![i] = [@ EXCEPT !.st = "released"]]

\* activeWorkspace changes to w: the cleanup of the effect of the previous
\* workspace, then the effect for w
ChangeWorkspace ==
    \E w \in Workspaces \cup {Null} :
        /\ w # workspaceId
        /\ nsteps < MaxSteps
        /\ w # Null => Len(subs) < MaxSubs
        /\ workspaceId' = w
        /\ LET cleaned == IF workspaceId # Null /\ unlistenRef # 0
                          THEN Released(unlistenRef) ELSE subs
           IN  subs' = IF w = Null THEN cleaned
                       ELSE Append(cleaned, [ws |-> w, st |-> "pending"])
        /\ unlistenRef' = IF workspaceId # Null THEN 0 ELSE unlistenRef
        /\ Run("changeWorkspace", w, workspaceId,
               IF w = Null THEN << >>
               ELSE <<[type |-> "clearWorkspaceSessions", workspaceId |-> w]>>,
               assistantRef, reasoningRef, FALSE)
        /\ UNCHANGED inflight

\* await listen(...) returns: the listener receives from now on, and
\* unlistenRef.current = unlisten
ListenResolves ==
    \E i \in 1..Len(subs) :
        /\ subs[i].st = "pending"
        /\ subs' = [subs EXCEPT ![i] = [@ EXCEPT !.st = "live"]]
        /\ unlistenRef' = i
        /\ last' = Last("listen", << >>, subs[i].ws, i)
        /\ UNCHANGED <<state, clock, workspaceId, assistantRef, reasoningRef, inflight,
                       fault, toolLog, underWs, tornDown, previousWorkspaceId, openTurns,
                       reasoningLog, nsteps, handoff>>

TickController ==
    /\ nsteps < MaxSteps
    /\ Ticking

\* the envelopes the backend emits -----------------------------------------

Env(w, method, params) == [workspaceId |-> w, method |-> method, params |-> params]

\* an envelope without params
EnvNoParams(w, method) == [workspaceId |-> w, method |-> method]

\* a value that is not an object (null, a number, a string)
Bad == [nonObject |-> TRUE]

\* an array
Arr(list) == [list |-> list]

TextContent(text) == [type |-> "text", text |-> text]

\* params of session/update
Update(sessionId, update) == [sessionId |-> sessionId, update |-> update]

OtherWorkspace(w) == IF w = "A" THEN "B" ELSE "A"

EnvelopeIds == 1..37

\* the k-th envelope, tagged for workspace w, with text unique to step n
Envelope(w, k, n) ==
    CASE k = 1 -> EnvNoParams(w, "session/created")
      [] k = 2 -> Env(w, "session/created", [id |-> "s1"])
      [] k = 3 -> Env(w, "session/created", [id |-> "s2", title |-> "t"])
      [] k = 4 -> Env(w, "session/created", EmptyObj)
      [] k = 5 -> EnvNoParams(w, "session/updated")
      [] k = 6 -> Env(w, "session/updated", [id |-> "s1", title |-> "t2"])
      [] k = 7 -> EnvNoParams(w, "session/deleted")
      [] k = 8 -> Env(w, "session/deleted", [sessionId |-> "s1"])
      [] k = 9 -> Env(w, "session/deleted", [sessionId |-> "s2"])
      [] k = 10 -> EnvNoParams(w, "session/update")
      [] k = 11 -> Env(w, "session/update",
                       [update |-> [sessionUpdate |-> "agent_message_chunk",
                                    content |-> TextContent(Delta(n))]])
      [] k = 12 -> Env(w, "session/update", [sessionId |-> "s1"])
      [] k = 13 -> Env(w, "session/update",
                       Update("s1", [sessionUpdate |-> "agent_message_chunk",
                                     content |-> TextContent(Delta(n))]))
      [] k = 14 -> Env(w, "session/update",
                       Update("s2", [sessionUpdate |-> "agent_message_chunk",
                                     content |-> TextContent(Delta(n))]))
      [] k = 15 -> Env(w, "session/update",
                       Update("s1", [sessionUpdate |-> "agent_message_chunk"]))
      [] k = 16 -> Env(w, "session/update",
                       Update("s1", [sessionUpdate |-> "tool_call", toolCallId |-> "c1",
                                     title |-> "run", kind |-> "execute",
                                     rawInput |-> "in"]))
      [] k = 17 -> Env(w, "session/update",
                       Update("s1", [sessionUpdate |-> "tool_call", toolCallId |-> "c1",
                                     title |-> "run", status |-> "in_progress",
                                     content |-> Arr(<<Bad,
                                                       [type |-> "content",
                                                        content |-> TextContent(Delta(n))]>>)]))
      [] k = 18 -> Env(w, "session/update",
                       Update("s1", [sessionUpdate |-> "tool_call_update",
                                     toolCallId |-> "c1", status |-> "completed",
                                     content |-> Arr(<<[type |-> "diff", path |-> "f",
                                                        oldText |-> <<"o">>,
                                                        newText |-> Delta(n)]>>)]))
      [] k = 19 -> Env(w, "session/update",
                       Update("s1", [sessionUpdate |-> "tool_call_update",
                                     toolCallId |-> "c1",
                                     content |-> Arr(<<[type |-> "diff",
                                                        newText |-> Delta(n)],
                                                       [type |-> "content", content |-> Bad],
                                                       [type |-> "terminal",
                                                        terminalId |-> "t1"]>>)]))
      [] k = 20 -> Env(w, "session/update",
                       Update("s1", [sessionUpdate |-> "tool_call", title |-> "run"]))
      [] k = 21 -> Env(w, "session/update",
                       Update("s2", [sessionUpdate |-> "tool_call_update",
                                     toolCallId |-> "c1", content |-> Bad]))
      [] k = 22 -> Env(w, "session/update",
                       Update("s1", [sessionUpdate |-> "plan",
                                     entries |-> Arr(<<[content |-> "p1",
                                                        status |-> "in_progress"],
                                                       Bad,
                                                       [status |-> "completed"],
                                                       [content |-> "p2"]>>)]))
      [] k = 23 -> Env(w, "session/update",
                       Update("s1", [sessionUpdate |-> "plan", entries |-> Bad]))
      [] k = 24 -> Env(w, "session/update",
                       Update("s1", [sessionUpdate |-> "agent_thought_chunk",
                                     content |-> TextContent(Delta(n))]))
      [] k = 25 -> Env(w, "session/update",
                       Update("s2", [sessionUpdate |-> "agent_thought_chunk",
                                     content |-> TextContent(Delta(n))]))
      [] k = 35 -> Env(w, "session/update",
                       Update("s2", [sessionUpdate |-> "agent_thought_chunk",
                                     content |-> [type |-> "image"]]))
      [] k = 36 -> Env(w, "session/update",
                       Update("s2", [sessionUpdate |-> "tool_call", toolCallId |-> "c2",
                                     title |-> "run tests", kind |-> "execute",
                                     content |-> Arr(<<[type |-> "diff", path |-> "a.txt",
                                                        oldText |-> <<"o">>,
                                                        newText |-> Delta(n)],
                                                       [type |-> "diff",
                                                        newText |-> Delta(n)],
                                                       [type |-> "diff", path |-> "b.txt",
                                                        newText |-> Delta(n)]>>)]))
      [] k = 37 -> Env(w, "session/update",
                       Update("s1", [sessionUpdate |-> "plan",
                                     entries |-> Arr(<<[content |-> "q1",
                                                        status |-> "completed"],
                                                       [content |-> "",
                                                        status |-> "in_progress"],
                                                       [content |-> "q2",
                                                        status |-> "blocked"]>>)]))
      [] k = 26 -> EnvNoParams(w, "content/updated")
      [] k = 27 -> Env(w, "content/updated",
                       [sessionId |-> "s1", messageId |-> "m1", text |-> Delta(n)])
      [] k = 28 -> Env(w, "content/updated", [sessionId |-> "s2", text |-> Delta(n)])
      [] k = 29 -> Env(w, "content/updated", [sessionId |-> "s1", messageId |-> "m1"])
      [] k = 30 -> EnvNoParams(w, "turn/completed")
      [] k = 31 -> Env(w, "turn/completed", [sessionId |-> "s1"])
      [] k = 32 -> Env(w, "turn/completed", [sessionId |-> "s2"])
      [] k = 33 -> EnvNoParams(w, "server/connected")
      [] OTHER -> Env(OtherWorkspace(w), "session/created", [id |-> "s1"])

\* the backend emits an envelope; a listener that is registered runs its callback
Deliver ==
    \E i \in 1..Len(subs), k \in EnvelopeIds :
        /\ subs[i].st = "live"
        /\ nsteps < MaxSteps
        /\ LET env == Envelope(subs[i].ws, k, nsteps)
               r == HandleEvent(subs[i].ws, env, assistantRef, reasoningRef, clock, nsteps)
           IN  Run("deliver", subs[i].ws, env, r.actions, r.assistantRef, r.reasoningRef,
                   r.fault)
        /\ UNCHANGED <<workspaceId, subs, unlistenRef, inflight>>

\* the five operations --------------------------------------------------------

\* a call to the backend that has not returned
Call(op, sessionId) ==
    [op |-> op, ws |-> workspaceId, sessionId |-> sessionId, n |-> nsteps, at |-> clock]

\* what an operation hands to its caller when its promise settles: the value,
\* whether the backend call succeeded, and whether the rejection of the backend
\* call went through to the caller (it does not when a catch encloses the await)
Outcome(value, ok, caught) == [value |-> value, ok |-> ok, threw |-> (~ok /\ ~caught)]

\* the operation returned at once, without a backend call
Returned(value) == Outcome(value, TRUE, TRUE)

\* the operation returns before it did anything
EarlyReturn(op, arg, value) ==
    /\ inflight' = inflight
    /\ RunWith(op, Null, arg, << >>, assistantRef, reasoningRef, FALSE, Returned(value))

StartSession ==
    /\ nsteps < MaxSteps
    /\ IF workspaceId = Null
       THEN EarlyReturn("startSession", Null, Null)
       ELSE /\ inflight' = inflight \cup {Call("create", Null)}
            /\ Run("startSession", workspaceId, Null, << >>, assistantRef, reasoningRef,
                   FALSE)
    /\ UNCHANGED <<workspaceId, subs, unlistenRef>>

\* createOpenCodeSession returns a session, or rejects
StartSessionReturns ==
    \E c \in inflight, ok \in BOOLEAN, s \in SessionIds :
        /\ c.op = "create"
        /\ inflight' = inflight \ {c}
        /\ RunWith("startSessionReturns", c.ws, c,
                   IF ok THEN <<[type |-> "ensureSession", workspaceId |-> c.ws,
                                 sessionId |-> s, title |-> "New Session"],
                                [type |-> "setActiveSessionId", workspaceId |-> c.ws,
                                 sessionId |-> s]>>
                   ELSE << >>,
                   assistantRef, reasoningRef, FALSE,
                   Outcome(IF ok THEN s ELSE Null, ok, TRUE))
        /\ UNCHANGED <<workspaceId, subs, unlistenRef>>

SwitchSession ==
    \E s \in ListedIds(state, workspaceId) \cup {Null} :
        /\ nsteps < MaxSteps
        /\ IF workspaceId = Null
           THEN EarlyReturn("switchSession", s, Undefined)
           ELSE /\ inflight' = inflight
                /\ RunWith("switchSession", workspaceId, s,
                           <<[type |-> "setActiveSessionId", workspaceId |-> workspaceId,
                              sessionId |-> s]>>
                           \o (IF s # Null
                               THEN <<[type |-> "markUnread", sessionId |-> s,
                                       hasUnread |-> FALSE]>>
                               ELSE << >>),
                           assistantRef, reasoningRef, FALSE, Returned(Undefined))
        /\ UNCHANGED <<workspaceId, subs, unlistenRef>>

\* (mutant) the assistant item is created before the user item is appended
SendActionsAssistantFirst(ws, targetSessionId, assistantItemId) ==
    <<[type |-> "upsertItem", sessionId |-> targetSessionId,
       item |-> AssistantItem(assistantItemId)],
      [type |-> "addUserMessage", workspaceId |-> ws, sessionId |-> targetSessionId,
       text |-> <<"u">>],
      [type |-> "markProcessing", sessionId |-> targetSessionId, isProcessing |-> TRUE],
      [type |-> "setSessionPlan", sessionId |-> targetSessionId, plan |-> NullPlan]>>

\* the actions of sendMessage before the send, in the order of their dispatch
SendActions(ws, targetSessionId, assistantItemId) ==
    <<[type |-> "addUserMessage", workspaceId |-> ws, sessionId |-> targetSessionId,
       text |-> <<"u">>],
      [type |-> "markProcessing", sessionId |-> targetSessionId, isProcessing |-> TRUE],
      [type |-> "setSessionPlan", sessionId |-> targetSessionId, plan |-> NullPlan],
      [type |-> "upsertItem", sessionId |-> targetSessionId,
       item |-> AssistantItem(assistantItemId)]>>

\* sendMessage(text, options): option is options.sessionId, Null when not given
SendMessage ==
    \E option \in ListedIds(state, workspaceId) \cup {Null} :
        LET targetSessionId == IF option # Null THEN option ELSE activeSessionId
            assistantItemId == AssistantItemId(clock, nsteps)
        IN  /\ nsteps < MaxSteps
            /\ IF workspaceId = Null \/ targetSessionId = Null
               THEN EarlyReturn("sendMessage", option, Undefined)
               ELSE /\ inflight' = inflight \cup {Call("send", targetSessionId)}
                    /\ Run("sendMessage", workspaceId, targetSessionId,
                           SendActions(workspaceId, targetSessionId, assistantItemId),
                           Put(assistantRef, targetSessionId, assistantItemId),
                           Delete(reasoningRef, targetSessionId), FALSE)
            /\ UNCHANGED <<workspaceId, subs, unlistenRef>>

\* sendOpenCodeMessage returns, or rejects
SendMessageReturns ==
    \E c \in inflight, ok \in BOOLEAN :
        /\ c.op = "send"
        /\ inflight' = inflight \ {c}
        /\ RunWith("sendMessageReturns", c.ws, c,
                   IF ok THEN << >>
                   ELSE <<[type |-> "markProcessing", sessionId |-> c.sessionId,
                           isProcessing |-> FALSE]>>,
                   assistantRef, reasoningRef, FALSE, Outcome(Undefined, ok, TRUE))
        /\ UNCHANGED <<workspaceId, subs, unlistenRef>>

CancelCurrentOperation ==
    /\ nsteps < MaxSteps
    /\ IF workspaceId = Null \/ activeSessionId = Null
       THEN EarlyReturn("cancelCurrentOperation", Null, Undefined)
       ELSE /\ inflight' = inflight \cup {Call("cancel", activeSessionId)}
            /\ Run("cancelCurrentOperation", workspaceId, activeSessionId, << >>,
                   assistantRef, reasoningRef, FALSE)
    /\ UNCHANGED <<workspaceId, subs, unlistenRef>>

\* cancelOpenCodeOperation returns, or rejects
CancelReturns ==
    \E c \in inflight, ok \in BOOLEAN :
        /\ c.op = "cancel"
        /\ inflight' = inflight \ {c}
        /\ RunWith("cancelReturns", c.ws, c,
                   IF ok THEN <<[type |-> "markProcessing", sessionId |-> c.sessionId,
                                 isProcessing |-> FALSE]>>
                   ELSE << >>,
                   assistantRef, reasoningRef, FALSE, Outcome(Undefined, ok, TRUE))
        /\ UNCHANGED <<workspaceId, subs, unlistenRef>>

RefreshSessions ==
    /\ nsteps < MaxSteps
    /\ IF workspaceId = Null
       THEN EarlyReturn("refreshSessions", Null, Undefined)
       ELSE /\ inflight' = inflight \cup {Call("list", Null)}
            /\ Run("refreshSessions", workspaceId, Null,
                   <<[type |-> "setSessionListLoading", workspaceId |-> workspaceId,
                      isLoading |-> TRUE]>>,
                   assistantRef, reasoningRef, FALSE)
    /\ UNCHANGED <<workspaceId, subs, unlistenRef>>

\* what listOpenCodeSessions returns, by number
SessionListIds == 1..3

SessionList(i) ==
    CASE i = 1 -> << >>
      [] i = 2 -> <<[id |-> "s1", title |-> "t1"]>>
      [] OTHER -> <<[id |-> "s2"], [id |-> "s1", title |-> "t1"]>>

\* (mutant) the title is taken as fetched
SummaryAsFetched(s) == [id |-> s.id, title |-> Get(s, "title", "")]

\* { id: s.id, title: s.title || "Untitled Session" }
Summary(s) ==
    [id |-> s.id, title |-> IF Get(s, "title", "") = "" THEN "Untitled Session" ELSE s.title]

\* sessionList.map(...)
Summaries(sessionList) == [j \in DOMAIN sessionList |-> Summary(sessionList[j])]

\* listOpenCodeSessions returns, or rejects
RefreshSessionsReturns ==
    \E c \in inflight, ok \in BOOLEAN, i \in SessionListIds :
        /\ c.op = "list"
        /\ inflight' = inflight \ {c}
        /\ RunWith("refreshSessionsReturns", c.ws, [call |-> c, sessionList |-> SessionList(i)],
                   (IF ok
                    THEN <<[type |-> "setSessions", workspaceId |-> c.ws,
                            sessions |-> Summaries(SessionList(i))]>>
                    ELSE << >>)
                   \o <<[type |-> "setSessionListLoading", workspaceId |-> c.ws,
                         isLoading |-> FALSE]>>,
                   assistantRef, reasoningRef, FALSE, Outcome(Undefined, ok, TRUE))
        /\ UNCHANGED <<workspaceId, subs, unlistenRef>>

Next ==
    \/ TickController
    \/ ChangeWorkspace
    \/ ListenResolves
    \/ Deliver
    \/ StartSession
    \/ StartSessionReturns
    \/ SwitchSession
    \/ SendMessage
    \/ SendMessageReturns
    \/ CancelCurrentOperation
    \/ CancelReturns
    \/ RefreshSessions
    \/ RefreshSessionsReturns

Spec == Init /\ [][Next]_vars

---------------------------------------------------------------------------
(* The claims about the controller, under Spec. *)

\* the session has an entry among the items, the statuses or the plans
HasEntry(st, sessionId) ==
    \/ sessionId \in DOMAIN st.itemsBySession
    \/ sessionId \in DOMAIN st.sessionStatusById
    \/ sessionId \in DOMAIN st.planBySession

\* the workspace has no active session and no summaries
WorkspaceEmpty(st, ws) ==
    /\ Get(st.activeSessionIdByWorkspace, ws, Null) = Null
    /\ Get(st.sessionsByWorkspace, ws, << >>) = << >>

\* C4: after clearWorkspaceSessions for workspace W, W's active-session pointer
\* is none, W's summary list is empty, and no session id that had state under
\* W before the action (listed or not) has an entry in the items, the statuses
\* or the plans.
C4_ClearDiscardsWorkspace ==
    \A i \in DOMAIN last.actions :
        last.actions[i].type = "clearWorkspaceSessions" =>
            /\ WorkspaceEmpty(state, last.actions[i].workspaceId)
            /\ \A s \in underWs[last.actions[i].workspaceId] : ~HasEntry(state, s)

\* C5: when the active workspace has changed from A to B, the list, the
\* active-session pointer and the items, status and plan of A's sessions are
\* gone by the time an event for B is applied.
C5_PreviousWorkspaceDiscarded ==
    (/\ last.op = "deliver"
     /\ last.ws = workspaceId
     /\ last.arg.workspaceId = workspaceId
     /\ previousWorkspaceId # Null)
    => /\ WorkspaceEmpty(last.before, previousWorkspaceId)
       /\ \A s \in underWs[previousWorkspaceId] \ underWs[workspaceId] :
            ~HasEntry(last.before, s)

\* C6: an envelope tagged with a workspace that is not the active one changes
\* neither the reducer state nor the turn trackers, whenever the registration
\* of its listener completed.
C6_StaleEnvelopeIgnored ==
    (last.op = "deliver" /\ last.arg.workspaceId # workspaceId)
    => /\ state = last.before
       /\ <<assistantRef, reasoningRef>> = last.refs

\* C7: the completion of a create, send, cancel or list call issued under a
\* workspace that is no longer the active one leaves the reducer state as it is.
C7_StaleCompletionIgnored ==
    (last.op \in ReturnOps /\ last.ws # workspaceId) => state = last.before

StreamTypes ==
    {"appendAssistantDelta", "appendReasoningDelta", "appendToolOutput",
     "appendToolChanges", "setToolStatus", "upsertItem", "markProcessing", "markUnread"}

\* C8: a step whose actions all carry the id of a session that was torn down
\* (by clearWorkspaceSessions or removeSession) and not registered again
\* leaves the reducer state as it is.
C8_TornDownDropped ==
    (/\ last.actions # << >>
     /\ \A i \in DOMAIN last.actions :
            /\ last.actions[i].type \in StreamTypes
            /\ last.actions[i].sessionId \in tornDown)
    => state = last.before

\* C9: after removeSession for a session, the session is in no summary list of
\* its workspace and has no entry in the items, the statuses or the plans.
C9_RemoveSessionDeletesState ==
    \A i \in DOMAIN last.actions :
        last.actions[i].type = "removeSession" =>
            /\ last.actions[i].sessionId \notin ListedIds(state, last.actions[i].workspaceId)
            /\ ~HasEntry(state, last.actions[i].sessionId)

\* the texts of the well-formed text entries of a content array
RECURSIVE WellFormedTexts(_)
WellFormedTexts(list) ==
    IF list = << >> THEN {}
    ELSE LET e == Head(list)
             ok == /\ IsObject(e)
                   /\ Get(e, "type", "") = "content"
                   /\ "content" \in DOMAIN e
                   /\ IsObject(e.content)
                   /\ Get(e.content, "type", "") = "text"
                   /\ Get(e.content, "text", << >>) # << >>
         IN  (IF ok THEN {e.content.text} ELSE {}) \cup WellFormedTexts(Tail(list))

\* the envelope is a tool call with an id and a content array
IsToolEnvelope(env) ==
    /\ env.method = "session/update"
    /\ "params" \in DOMAIN env
    /\ Get(env.params, "sessionId", "") # ""
    /\ "update" \in DOMAIN env.params
    /\ Get(env.params.update, "sessionUpdate", "") \in {"tool_call", "tool_call_update"}
    /\ Get(env.params.update, "toolCallId", "") # ""
    /\ "content" \in DOMAIN env.params.update
    /\ IsObject(env.params.update.content)

\* C10: no invocation of the listener raises an exception, whatever the params
\* of the envelope, and every well-formed text entry of a tool call's content
\* is appended, also after a malformed entry.
C10_DecoderTolerant ==
    /\ fault = FALSE
    /\ (last.op = "deliver" /\ last.arg.workspaceId = last.ws /\ IsToolEnvelope(last.arg))
        => \A t \in WellFormedTexts(last.arg.params.update.content.list) :
                \E i \in DOMAIN last.actions :
                    /\ last.actions[i].type = "appendToolOutput"
                    /\ last.actions[i].delta = t

\* the last step was sendMessage on a target session
SendStep == last.op = "sendMessage" /\ last.ws # Null

\* C11: sendMessage on a target session dispatches, in this order, the user
\* item, processing = true, plan = null and the empty assistant item; the
\* reasoning tracker of the session is reset and the assistant item is the
\* session's active assistant item; the user item precedes the assistant item;
\* the send is issued with all of that done.  Without a workspace or a target
\* nothing changes and nothing is sent.
C11_SendMessageOrder ==
    /\ SendStep =>
        LET s == last.arg
            items == ItemsOf(state, s)
        IN  /\ Len(last.actions) = 4
            /\ [i \in 1..4 |-> last.actions[i].type]
                    = <<"addUserMessage", "markProcessing", "setSessionPlan", "upsertItem">>
            /\ \A i \in 1..4 : last.actions[i].sessionId = s
            /\ last.actions[2].isProcessing = TRUE
            /\ last.actions[3].plan = NullPlan
            /\ s \notin DOMAIN reasoningRef
            /\ s \in DOMAIN assistantRef
            /\ last.actions[4].item = AssistantItem(assistantRef[s])
            /\ state.sessionStatusById[s].isProcessing = TRUE
            /\ state.planBySession[s] = NullPlan
            /\ \E i \in PositionsOf(items, UserItemId(last.now)) :
                    /\ items[i].kind = "message" /\ items[i].role = "user"
                    /\ \E j \in PositionsOf(items, assistantRef[s]) :
                            i < j /\ items[j] = AssistantItem(assistantRef[s])
            /\ \E c \in inflight :
                    c.op = "send" /\ c.sessionId = s /\ c.ws = last.ws /\ c.n = nsteps - 1
    /\ (last.op = "sendMessage" /\ last.ws = Null) =>
            /\ state = last.before
            /\ <<assistantRef, reasoningRef>> = last.refs
            /\ \A c \in inflight : c.n # nsteps - 1

\* a sendMessage on a session that has items and a reasoning item in progress
C11_Witness ==
    /\ SendStep
    /\ last.arg \in DOMAIN last.refs[2]
    /\ ItemsOf(last.before, last.arg) # << >>

\* C12: when the send fails, the session's isProcessing is false, the items of
\* every session are as they were (the user item and the assistant item stay),
\* and the failure does not reach the caller.
C12_SendFailure ==
    (last.op = "sendMessageReturns" /\ ~last.result.ok) =>
        /\ state.sessionStatusById[last.arg.sessionId].isProcessing = FALSE
        /\ state.itemsBySession = last.before.itemsBySession
        /\ ~last.result.threw

\* a failed send whose user item and assistant item are in the sequence
C12_Witness ==
    /\ last.op = "sendMessageReturns"
    /\ ~last.result.ok
    /\ last.before.sessionStatusById[last.arg.sessionId].isProcessing = TRUE
    /\ PositionsOf(ItemsOf(state, last.arg.sessionId), UserItemId(last.arg.at)) # {}
    /\ PositionsOf(ItemsOf(state, last.arg.sessionId),
                   AssistantItemId(last.arg.at, last.arg.n)) # {}

\* the active session of a workspace in a state
ActiveOf(st, ws) == Get(st.activeSessionIdByWorkspace, ws, Null)

\* the summaries of a workspace in a state
SummariesOf(st, ws) == Get(st.sessionsByWorkspace, ws, << >>)

\* a field of the status entry of a session: <<v>>, or << >> when it has none
StatusField(st, sessionId, f) ==
    LET entry == Get(st.sessionStatusById, sessionId, EmptyObj)
    IN  IF f \in DOMAIN entry THEN <<entry[f]>> ELSE << >>

\* the step before issued a call of the kind for the workspace and session
Issued(op, ws, sessionId) ==
    \E c \in inflight :
        c.op = op /\ c.ws = ws /\ c.sessionId = sessionId /\ c.n = nsteps - 1

\* C13: when createOpenCodeSession succeeds, the new session is exactly once in
\* the summary list of the workspace, is its active session and its id is the
\* result; when it fails, or without a workspace, the result is null, the
\* reducer state is unchanged; in no case does the caller see an exception.
C13_StartSession ==
    /\ (last.op = "startSessionReturns" /\ last.result.ok) =>
            /\ last.result.value \in SessionIds
            /\ Cardinality(PositionsOf(SummariesOf(state, last.ws), last.result.value)) = 1
            /\ ActiveOf(state, last.ws) = last.result.value
            /\ ~last.result.threw
    /\ (last.op = "startSessionReturns" /\ ~last.result.ok) =>
            /\ last.result.value = Null
            /\ state = last.before
            /\ ~last.result.threw
    /\ (last.op = "startSession" /\ last.ws = Null) =>
            /\ last.result.value = Null
            /\ state = last.before
            /\ ~last.result.threw
            /\ \A c \in inflight : c.n # nsteps - 1
    /\ (last.op = "startSession" /\ last.ws # Null) => Issued("create", last.ws, Null)

\* createOpenCodeSession returned a session that the workspace lists already
C13_Witness ==
    /\ last.op = "startSessionReturns"
    /\ last.result.ok
    /\ last.result.value \in ListedIds(last.before, last.ws)
    /\ ActiveOf(last.before, last.ws) # last.result.value

\* C14: cancelCurrentOperation calls cancel for the session that is active when
\* it is called; when the call succeeds that session's isProcessing is false;
\* when it fails the statuses of all sessions are as they were; the caller sees
\* no exception.
C14_Cancel ==
    /\ (last.op = "cancelCurrentOperation" /\ last.ws # Null) =>
            /\ ActiveOf(last.before, last.ws) # Null
            /\ Issued("cancel", last.ws, ActiveOf(last.before, last.ws))
            /\ state = last.before
    /\ (last.op = "cancelCurrentOperation" /\ last.ws = Null) =>
            /\ state = last.before
            /\ \A c \in inflight : c.n # nsteps - 1
    /\ (last.op = "cancelReturns" /\ last.result.ok) =>
            /\ StatusField(state, last.arg.sessionId, "isProcessing") = <<FALSE>>
            /\ ~last.result.threw
    /\ (last.op = "cancelReturns" /\ ~last.result.ok) =>
            /\ state.sessionStatusById = last.before.sessionStatusById
            /\ ~last.result.threw

\* a cancel succeeded for a session that was processing
C14_Witness ==
    /\ last.op = "cancelReturns"
    /\ last.result.ok
    /\ StatusField(last.before, last.arg.sessionId, "isProcessing") = <<TRUE>>

\* C15: refreshSessions sets the loading flag of the workspace; when the list
\* call returns the flag is false; on success the summary list is the fetched
\* list, in order, with "Untitled Session" for an empty title; on failure the
\* summary list is as it was.
C15_Refresh ==
    /\ (last.op = "refreshSessions" /\ last.ws # Null) =>
            /\ state.sessionListLoadingByWorkspace[last.ws] = TRUE
            /\ Issued("list", last.ws, Null)
    /\ last.op = "refreshSessionsReturns" =>
            LET fetched == last.arg.sessionList
                listed == SummariesOf(state, last.ws)
            IN  /\ state.sessionListLoadingByWorkspace[last.ws] = FALSE
                /\ ~last.result.threw
                /\ last.result.ok =>
                        /\ Len(listed) = Len(fetched)
                        /\ \A j \in DOMAIN fetched :
                                /\ listed[j].id = fetched[j].id
                                /\ listed[j].title =
                                        IF "title" \in DOMAIN fetched[j] /\ fetched[j].title # ""
                                        THEN fetched[j].title ELSE "Untitled Session"
                /\ ~last.result.ok => listed = SummariesOf(last.before, last.ws)

\* a list with an untitled session replaced a summary list that was not empty
C15_Witness ==
    /\ last.op = "refreshSessionsReturns"
    /\ last.result.ok
    /\ \E j \in DOMAIN last.arg.sessionList : "title" \notin DOMAIN last.arg.sessionList[j]
    /\ SummariesOf(last.before, last.ws) # << >>
    /\ last.before.sessionListLoadingByWorkspace[last.ws] = TRUE

\* C16: switchSession(id) makes id the active session of the current workspace;
\* for a session id, its hasUnread is false and its isProcessing as before; for
\* none, no status changes; items, plans and the pointers of the other
\* workspaces are as before.
C16_SwitchSession ==
    (last.op = "switchSession" /\ last.ws # Null) =>
        /\ ActiveOf(state, last.ws) = last.arg
        /\ last.ws \in DOMAIN state.activeSessionIdByWorkspace
        /\ last.arg # Null =>
                /\ StatusField(state, last.arg, "hasUnread") = <<FALSE>>
                /\ StatusField(state, last.arg, "isProcessing")
                        = StatusField(last.before, last.arg, "isProcessing")
                /\ \A t \in DOMAIN state.sessionStatusById \ {last.arg} :
                        /\ t \in DOMAIN last.before.sessionStatusById
                        /\ state.sessionStatusById[t] = last.before.sessionStatusById[t]
        /\ last.arg = Null => state.sessionStatusById = last.before.sessionStatusById
        /\ state.itemsBySession = last.before.itemsBySession
        /\ state.planBySession = last.before.planBySession
        /\ \A w \in Workspaces \ {last.ws} :
                /\ ActiveOf(state, w) = ActiveOf(last.before, w)
                /\ (w \in DOMAIN state.activeSessionIdByWorkspace)
                        <=> (w \in DOMAIN last.before.activeSessionIdByWorkspace)

\* a switch to a session that is processing, away from another active session
C16_Witness ==
    /\ last.op = "switchSession"
    /\ last.ws # Null
    /\ last.arg # Null
    /\ StatusField(last.before, last.arg, "isProcessing") = <<TRUE>>
    /\ ActiveOf(last.before, last.ws) # last.arg

\* the last step handled a turn/completed event that names a session
TurnCompletedStep ==
    /\ last.op = "deliver"
    /\ last.arg.workspaceId = last.ws
    /\ last.arg.method = "turn/completed"
    /\ "params" \in DOMAIN last.arg
    /\ "sessionId" \in DOMAIN last.arg.params

\* C17: turn/completed for session S removes S from both trackers and sets its
\* isProcessing to false; the trackers and the isProcessing of the other
\* sessions are as before.
C17_TurnCompleted ==
    TurnCompletedStep =>
        LET S == last.arg.params.sessionId
        IN  /\ S \notin DOMAIN assistantRef
            /\ S \notin DOMAIN reasoningRef
            /\ StatusField(state, S, "isProcessing") = <<FALSE>>
            /\ \A t \in (SessionIds \cup DOMAIN last.refs[1] \cup DOMAIN last.refs[2]
                            \cup DOMAIN state.sessionStatusById) \ {S} :
                    /\ Get(assistantRef, t, Undefined) = Get(last.refs[1], t, Undefined)
                    /\ Get(reasoningRef, t, Undefined) = Get(last.refs[2], t, Undefined)
                    /\ StatusField(state, t, "isProcessing")
                            = StatusField(last.before, t, "isProcessing")

\* the turn of a session that was processing and had a tracker completes, while
\* another session is processing
C17_Witness ==
    /\ TurnCompletedStep
    /\ last.arg.params.sessionId \in DOMAIN last.refs[1] \cup DOMAIN last.refs[2]
    /\ \E t \in SessionIds \ {last.arg.params.sessionId} :
            t \in DOMAIN last.refs[1] \cup DOMAIN last.refs[2]

---------------------------------------------------------------------------
(* The hook useHandoffTldr under the renders of its caller, the passing of  *)
(* time and its idle timer.                                                 *)

\* the number of steps of one behaviour of the hook
MaxTldrSteps == 4

\* [kind, workspaceId, id] as the caller passes them
TldrIdentities ==
    {<<"session", Null, Null>>, <<"session", "A", Null>>, <<"session", "A", "s1">>,
     <<"session", "A", "s2">>, <<"thread", "A", "s1">>}

UserItem == [id |-> "user-0", kind |-> "message", role |-> "user", text |-> <<"u">>]

TldrItemsIds == 1..6

\* the items of a conversation: none, or a user message and what
\* messagePartsToItems makes of the parts of an assistant message
TldrItems(i) ==
    IF i = 1 THEN << >>
    ELSE <<UserItem>> \o messagePartsToItems("m1", "assistant", PartList(i - 1))

TldrPlanIds == 1..3

PlanOf(steps) == [turnId |-> "t1", explanation |-> Null, steps |-> steps]

TldrPlan(j) ==
    CASE j = 1 -> NullPlan
      [] j = 2 -> PlanOf(<<[step |-> "a", status |-> "completed"],
                           [step |-> "b", status |-> "pending"]>>)
      [] OTHER -> PlanOf(<<[step |-> "a", status |-> "completed"],
                           [step |-> "b", status |-> "completed"],
                           [step |-> "c", status |-> "inProgress"]>>)

\* title: "", " T ", and 42 characters with spaces at 39 and 40
TldrTitles ==
    {<< >>, <<" ", "T", " ">>,
     [k \in 1..42 |-> IF k \in {39, 40} THEN " " ELSE "x"]}

Activity(m, t, d, p) ==
    [messageCount |-> m, toolCallCount |-> t, diffCount |-> d, planCompleted |-> p]

StoredKey == baselineKey("session", "A", "s1")

StoreIds == 1..8

\* what localStorage holds when the hook mounts: nothing, or under the key of
\* (session, A, s1) a baseline the hook wrote, or a text it did not write
StoreAtMount(i) ==
    CASE i = 1 -> EmptyObj
      [] i = 2 -> Put(EmptyObj, StoredKey,
                      JsonStringifyBaseline([openedAt |-> 0,
                                             activity |-> Activity(0, 0, 0, 0)]))
      [] i = 3 -> Put(EmptyObj, StoredKey,
                      JsonStringifyBaseline([openedAt |-> 0,
                                             activity |-> Activity(1, 1, 1, 1)]))
      [] i = 4 -> Put(EmptyObj, StoredKey, EmptyText)
      [] i = 5 -> Put(EmptyObj, StoredKey, InvalidText)
      [] i = 6 -> Put(EmptyObj, StoredKey, NullText)
      [] i = 7 -> Put(EmptyObj, StoredKey, [object |-> EmptyObj])
      [] OTHER -> Put(EmptyObj, StoredKey,
                      [object |-> [openedAt |-> <<0>>, activity |-> EmptyObj]])

InitTldr ==
    /\ state = initialState
    /\ clock = 0
    /\ workspaceId = Null
    /\ subs = << >>
    /\ unlistenRef = 0
    /\ assistantRef = EmptyObj
    /\ reasoningRef = EmptyObj
    /\ inflight = {}
    /\ fault = FALSE
    /\ last = [op |-> "init", actions |-> << >>, now |-> 0, before |-> initialState,
               ws |-> Null, arg |-> Null, refs |-> <<EmptyObj, EmptyObj>>,
               result |-> NoResult]
    /\ toolLog = EmptyObj
    /\ underWs = [w \in Workspaces |-> {}]
    /\ tornDown = {}
    /\ previousWorkspaceId = Null
    /\ openTurns = EmptyObj
    /\ reasoningLog = EmptyObj
    /\ nsteps = 0
    /\ \E i \in StoreIds, mode \in StoreModes :
           handoff = Mount(NoProps, StoreAtMount(i), mode, 0)

SessionVars ==
    <<state, workspaceId, subs, unlistenRef, assistantRef, reasoningRef, inflight,
      fault, last, toolLog, underWs, tornDown, previousWorkspaceId, openTurns,
      reasoningLog>>

\* one step of the hook
HookStep(h) ==
    /\ nsteps' = nsteps + 1
    /\ handoff' = h
    /\ UNCHANGED <<clock, SessionVars>>

\* the caller selects another thread or session, or none
ChangeIdentity ==
    \E ident \in TldrIdentities :
        /\ nsteps < MaxTldrSteps
        /\ handoff.mounted
        /\ ident # Identity(handoff.props)
        /\ HookStep(Commit(handoff,
                           [handoff.props EXCEPT !.kind = ident[1],
                                                 !.workspaceId = ident[2],
                                                 !.id = ident[3]],
                           TRUE, FALSE, FALSE, clock))

\* the caller passes another array of items (its content may be the same)
ChangeItems ==
    \E i \in TldrItemsIds :
        /\ nsteps < MaxTldrSteps
        /\ handoff.mounted
        /\ HookStep(Commit(handoff, [handoff.props EXCEPT !.items = TldrItems(i)],
                           FALSE, TRUE, FALSE, clock))

ChangePlan ==
    \E j \in TldrPlanIds :
        /\ nsteps < MaxTldrSteps
        /\ handoff.mounted
        /\ TldrPlan(j) # handoff.props.plan
        /\ HookStep(Commit(handoff, [handoff.props EXCEPT !.plan = TldrPlan(j)],
                           FALSE, FALSE, TRUE, clock))

ChangeFlags ==
    \E isProcessing \in BOOLEAN, hasPendingApproval \in BOOLEAN :
        /\ nsteps < MaxTldrSteps
        /\ handoff.mounted
        /\ <<isProcessing, hasPendingApproval>>
              # <<handoff.props.isProcessing, handoff.props.hasPendingApproval>>
        /\ HookStep(Commit(handoff,
                           [handoff.props EXCEPT !.isProcessing = isProcessing,
                                                 !.hasPendingApproval = hasPendingApproval],
                           FALSE, FALSE, FALSE, clock))

ChangeTitle ==
    \E title \in TldrTitles :
        /\ nsteps < MaxTldrSteps
        /\ handoff.mounted
        /\ title # Get(handoff.props, "title", << >>)
        /\ HookStep(Commit(handoff, Put(handoff.props, "title", title),
                           FALSE, FALSE, FALSE, clock))

\* the idle timer fires, at or after the time it is due (the event loop runs
\* a due timer without a step of the caller)
TimerFires ==
    /\ handoff.timer # NoTimer
    /\ clock >= handoff.timer[1].due
    /\ handoff' = TimerFired(handoff, clock)
    /\ UNCHANGED <<clock, nsteps, SessionVars>>

\* time passes: a millisecond, or the idle window
TimePasses ==
    \E dt \in {1, BASELINE_RESET_MS} :
        /\ nsteps < MaxTldrSteps
        /\ nsteps' = nsteps + 1
        /\ clock' = clock + dt
        /\ UNCHANGED <<handoff, SessionVars>>

NextTldr ==
    \/ ChangeIdentity
    \/ ChangeItems
    \/ ChangePlan
    \/ ChangeFlags
    \/ ChangeTitle
    \/ TimerFires
    \/ TimePasses

SpecTldr == InitTldr /\ [][NextTldr]_vars

\* the hook over a store that works and holds nothing, or a baseline of an
\* earlier run
InitTldrLive ==
    /\ InitTldr
    /\ \E i \in {1, 3} : handoff = Mount(NoProps, StoreAtMount(i), "ok", 0)

\* a timer that is due does fire
SpecTldrLive == InitTldrLive /\ [][NextTldr]_vars /\ WF_vars(TimerFires)

---------------------------------------------------------------------------
(* The claims about the hand-off summary, under SpecTldr. *)

\* the baselines of the type HandoffBaseline | null
Baselines ==
    {NullBaseline}
        \cup {[openedAt |-> 0, activity |-> Activity(m, t, d, p)] :
                m \in 0..1, t \in 0..1, d \in 0..1, p \in 0..1}

\* what JSON.parse can return that is not of that type
MalformedBaselines == {EmptyObj, [openedAt |-> 0, activity |-> EmptyObj]}

HasTarget(p) == p.workspaceId # Null /\ p.id # Null

\* the status by the order of the checks: no items, approval, processing
ExpectedStatus(p) ==
    IF p.items = << >> THEN "new"
    ELSE IF p.hasPendingApproval THEN "waiting-approval"
    ELSE IF p.isProcessing THEN "working"
    ELSE "idle"

\* C19: for the items and the two flags of every reachable render that has a
\* workspace and an id, the memo yields under every baseline a TL;DR whose
\* status is new without items, else waiting-approval when an approval is
\* pending, else working when processing, else idle; the TL;DR the hook
\* returns has that status too, whatever its summary is.
C19_StatusDerivation ==
    HasTarget(handoff.props) =>
        /\ \A b \in Baselines :
              LET r == tldr(handoff.props, b)
              IN  /\ "value" \in DOMAIN r
                  /\ r.value.status = ExpectedStatus(handoff.props)
        /\ "value" \in DOMAIN handoff.tldr =>
              handoff.tldr.value.status = ExpectedStatus(handoff.props)

\* items, an approval pending and processing at once, against a baseline
C19_Witness ==
    /\ HasTarget(handoff.props)
    /\ handoff.props.items # << >>
    /\ handoff.props.hasPendingApproval
    /\ handoff.props.isProcessing
    /\ handoff.baseline # NullBaseline
    /\ handoff.tldr = tldr(handoff.props, handoff.baseline)
    /\ "value" \in DOMAIN handoff.tldr
    /\ handoff.tldr.value.status = "waiting-approval"

\* C20: in every reachable render that has a workspace and an id and no items,
\* the memo yields under every baseline, well-formed or not, a TL;DR whose
\* summary is null and whose status is new, and so is the TL;DR the hook
\* returns, whatever the plan and the two flags are.
C20_NoItemsNoSummary ==
    (HasTarget(handoff.props) /\ handoff.props.items = << >>) =>
        /\ \A b \in Baselines \cup MalformedBaselines :
              LET r == tldr(handoff.props, b)
              IN  /\ "value" \in DOMAIN r
                  /\ r.value.summary = Null
                  /\ r.value.status = "new"
        /\ handoff.tldr = tldr(handoff.props, handoff.baseline)
        /\ "value" \in DOMAIN handoff.tldr
        /\ handoff.tldr.value.summary = Null
        /\ handoff.tldr.value.status = "new"

\* no items under a baseline with counters, a plan with completed steps,
\* processing and an approval pending
C20_Witness ==
    /\ HasTarget(handoff.props)
    /\ handoff.props.items = << >>
    /\ handoff.baseline # NullBaseline
    /\ "activity" \in DOMAIN handoff.baseline
    /\ "messageCount" \in DOMAIN handoff.baseline.activity
    /\ handoff.baseline.activity.messageCount > 0
    /\ handoff.props.plan # NullPlan
    /\ handoff.props.isProcessing
    /\ handoff.props.hasPendingApproval
    /\ handoff.tldr = Value([kind |-> "session", title |-> FallbackSession,
                             summary |-> Null, status |-> "new"])

\* the baseline a capture at the props p would give
BaselineAt(p) == [openedAt |-> 0, activity |-> snapshotActivity(p.items, p.plan)]

\* the arguments the memo passes to buildSummary
SummaryParams(p, baseline) ==
    [baseline |-> baseline, current |-> snapshotActivity(p.items, p.plan),
     isProcessing |-> p.isProcessing, hasPendingApproval |-> p.hasPendingApproval,
     hasItems |-> Len(p.items) > 0]

\* the baseline is an object with the four counters
WellFormed(baseline) ==
    /\ "activity" \in DOMAIN baseline
    /\ DOMAIN baseline.activity =
          {"messageCount", "toolCallCount", "diffCount", "planCompleted"}

\* C21: in every reachable render with items, the summary against a baseline
\* whose four counters equal those of the current snapshot is "Working..."
\* when processing, else "Waiting for approval" when an approval is pending,
\* else "No new activity"; and this is the summary the hook returns when its
\* own baseline has the counters of the current snapshot.
C21_ZeroDeltaSummary ==
    LET p == handoff.props
        expected == IF p.isProcessing THEN "Working..."
                    ELSE IF p.hasPendingApproval THEN "Waiting for approval"
                    ELSE "No new activity"
    IN  (HasTarget(p) /\ p.items # << >>) =>
          /\ buildSummary(SummaryParams(p, BaselineAt(p))) = Value(expected)
          /\ (/\ handoff.mounted
              /\ WellFormed(handoff.baseline)
              /\ handoff.baseline.activity = snapshotActivity(p.items, p.plan))
                => /\ "value" \in DOMAIN handoff.tldr
                   /\ handoff.tldr.value.summary = expected

\* the hook returns "Working..." with the status waiting-approval: items with
\* an assistant message, a baseline that has their counters, processing and
\* an approval pending
C21_Witness ==
    /\ HasTarget(handoff.props)
    /\ handoff.mounted
    /\ WellFormed(handoff.baseline)
    /\ handoff.baseline.activity = snapshotActivity(handoff.props.items, handoff.props.plan)
    /\ handoff.baseline.activity.messageCount > 0
    /\ handoff.props.isProcessing
    /\ handoff.props.hasPendingApproval
    /\ handoff.tldr.value.summary = "Working..."
    /\ handoff.tldr.value.status = "waiting-approval"

\* the summary the clause list describes, for the deltas of the current
\* snapshot against the counters a: tasks, then files, then actions when diffs
\* did not increase, then responses when nothing else qualified
ClauseSummary(p, a) ==
    LET cur == snapshotActivity(p.items, p.plan)
        planDelta == cur.planCompleted - a.planCompleted
        diffDelta == cur.diffCount - a.diffCount
        toolDelta == cur.toolCallCount - a.toolCallCount
        msgDelta == cur.messageCount - a.messageCount
        Plural(n) == IF n = 1 THEN "" ELSE "s"
        tasks == IF planDelta > 0
                 THEN <<ToString(planDelta) \o " task" \o Plural(planDelta) \o " done">>
                 ELSE << >>
        files == IF diffDelta > 0
                 THEN <<ToString(diffDelta) \o " file" \o Plural(diffDelta) \o " changed">>
                 ELSE << >>
        actions == IF toolDelta > 0 /\ files = << >>
                   THEN <<ToString(toolDelta) \o " action" \o Plural(toolDelta)>>
                   ELSE << >>
        earlier == tasks \o files \o actions
        responses == IF msgDelta > 0 /\ earlier = << >>
                     THEN <<ToString(msgDelta) \o " response" \o Plural(msgDelta)>>
                     ELSE << >>
        clauses == earlier \o responses
    IN  IF clauses = << >> THEN (IF p.isProcessing THEN "Working..." ELSE "Caught up")
        ELSE IF Len(clauses) = 1 THEN clauses[1]
        ELSE IF Len(clauses) = 2 THEN clauses[1] \o ", " \o clauses[2]
        ELSE clauses[1] \o ", " \o clauses[2] \o ", " \o clauses[3]

\* C22: in every reachable render with items in which the hook's baseline is
\* well-formed and at least one counter differs from the current snapshot,
\* the summary the hook returns is the comma-joined list of the clauses
\* "<n> task(s) done" (completed plan steps increased), "<n> file(s) changed"
\* (diffs increased), "<n> action(s)" (tool items increased and no file
\* clause), "<n> response(s)" (assistant messages increased and no earlier
\* clause), each noun plural when its count is not 1, or "Working..." when
\* processing, else "Caught up", when there is no clause.
C22_ClauseList ==
    LET p == handoff.props
    IN  (/\ HasTarget(p)
         /\ p.items # << >>
         /\ handoff.mounted
         /\ WellFormed(handoff.baseline)
         /\ handoff.baseline.activity # snapshotActivity(p.items, p.plan))
          => /\ "value" \in DOMAIN handoff.tldr
             /\ handoff.tldr.value.summary = ClauseSummary(p, handoff.baseline.activity)

\* the idle window has passed since the timer was armed, that is since the
\* items, the plan or the identity last changed, and the store can be written
IdleDue ==
    /\ handoff.timer # NoTimer
    /\ clock >= handoff.timer[1].due
    /\ handoff.storeMode = "ok"

\* the timer has just re-captured the baseline: it has the counters of the
\* current snapshot, it is persisted under the key of the current identity,
\* and the summary is the zero-delta one
Recaptured ==
    LET p == handoff.props
    IN  /\ handoff.op = "timer"
        /\ handoff.timer = NoTimer
        /\ HasTarget(p)
        /\ handoff.baseline = [openedAt |-> clock,
                               activity |-> snapshotActivity(p.items, p.plan)]
        /\ Get(handoff.store, baselineKey(p.kind, p.workspaceId, p.id), NoText)
              = JsonStringifyBaseline(handoff.baseline)
        /\ JsonParse(JsonStringifyBaseline(handoff.baseline)) = Value(handoff.baseline)
        /\ p.items # << >> =>
              handoff.tldr = Value([kind |-> p.kind,
                                    title |-> handoff.tldr.value.title,
                                    summary |-> IF p.isProcessing THEN "Working..."
                                                ELSE IF p.hasPendingApproval
                                                THEN "Waiting for approval"
                                                ELSE "No new activity",
                                    status |-> ExpectedStatus(p)])

\* a render has re-armed or cleared the timer
TimerReset ==
    /\ handoff.op = "render"
    /\ handoff.timer # NoTimer => clock < handoff.timer[1].due

\* C23: once the idle window has passed without a change of the items, the
\* plan or the identity, the baseline gets re-captured and persisted with the
\* counters of the then-current snapshot, the summary being the zero-delta
\* one, unless a render changes the items, the plan or the identity before
\* the timer has run.
C23_IdleRecapture == IdleDue ~> (Recaptured \/ TimerReset)

\* the timer has re-captured a baseline that was captured before items came:
\* the summary is "No new activity" over items with an assistant message
C23_Witness ==
    /\ Recaptured
    /\ clock >= BASELINE_RESET_MS
    /\ handoff.baseline.activity.messageCount > 0
    /\ handoff.props.plan # NullPlan
    /\ handoff.tldr.value.summary = "No new activity"

\* C24: with a store that works, whatever text is persisted under the key
\* (none, one that is not JSON, or JSON of another shape), the hook raises no
\* fault, and whenever it has a workspace and an id its baseline is a
\* well-formed one that is persisted under the key: a persisted entry that
\* is not a baseline is replaced by a fresh capture.
C24_MalformedTreatedAbsent ==
    LET p == handoff.props
    IN  handoff.storeMode = "ok" =>
          /\ ~handoff.fault
          /\ HasTarget(p) =>
                /\ WellFormed(handoff.baseline)
                /\ Get(handoff.store, baselineKey(p.kind, p.workspaceId, p.id), NoText)
                      = JsonStringifyBaseline(handoff.baseline)

\* C25: with a store whose accesses or whose writes throw, the hook raises
\* no fault and stays mounted, through the baseline load and through the
\* idle timer, and its baseline is none or a well-formed one.
C25_StoreFailureSwallowed ==
    handoff.storeMode # "ok" =>
        /\ ~handoff.fault
        /\ handoff.mounted
        /\ handoff.baseline = NullBaseline \/ WellFormed(handoff.baseline)

\* the number of parts of one of the types
NumParts(parts, types) == Cardinality({k \in 1..Len(parts) : parts[k].type \in types})

\* the number of completed steps of a plan, none for no plan
NumCompleted(plan) ==
    IF plan = NullPlan THEN 0
    ELSE Cardinality({k \in 1..Len(plan.steps) : plan.steps[k].status = "completed"})

\* the counters the parts of an assistant message and a plan should give
PartCounts(parts, plan) ==
    [messageCount |-> NumParts(parts, {"text"}),
     toolCallCount |-> NumParts(parts, {"tool_use", "tool_result"}),
     diffCount |-> NumParts(parts, {"patch"}),
     planCompleted |-> NumCompleted(plan)]

\* C26: for every list of parts and the plan of every reachable render, the
\* snapshot of messagePartsToItems(m1, assistant, parts) counts one message
\* per text part, one tool call per tool_use or tool_result part and one
\* diff per patch part whatever the number of its files, nothing for a file
\* part, and the completed steps of the plan whatever the items are; the
\* same holds of the snapshot of the rendered items, which are those items
\* after a user message, and of a baseline the hook captures from them.
C26_SnapshotOfParts ==
    LET p == handoff.props
    IN  /\ \A i \in PartListIds :
              snapshotActivity(messagePartsToItems("m1", "assistant", PartList(i)), p.plan)
                = PartCounts(PartList(i), p.plan)
        /\ \A i \in PartListIds :
              p.items = TldrItems(i + 1) =>
                /\ snapshotActivity(p.items, p.plan) = PartCounts(PartList(i), p.plan)
                /\ (handoff.op = "timer" /\ handoff.storeMode = "ok") =>
                      handoff.baseline.activity = PartCounts(PartList(i), p.plan)

\* the timer has captured the items of a text, a file and a text part after a
\* user message: two messages; and those of a patch of two files: one diff
C26_Witness ==
    /\ handoff.op = "timer"
    /\ handoff.storeMode = "ok"
    /\ \/ /\ handoff.props.items = TldrItems(5)
           /\ handoff.baseline.activity.messageCount = 2
       \/ /\ handoff.props.items = TldrItems(3)
           /\ Len(PartList(2)[3].files) = 2
           /\ handoff.baseline.activity.diffCount = 1

\* the plans an action may carry: none, one of the session's turn, and the
\* plans the state holds
PlansFor(s) ==
    {NullPlan,
     [turnId |-> s, explanation |-> Null,
      steps |-> <<[step |-> "a", status |-> "completed"],
                  [step |-> "b", status |-> "pending"]>>]}
        \cup {state.planBySession[t] : t \in DOMAIN state.planBySession}

\* the two states differ at most in the plan entry of s
SameButPlanOf(st1, st2, s) ==
    /\ \A f \in (DOMAIN st1) \ {"planBySession"} : st1[f] = st2[f]
    /\ DOMAIN st2.planBySession \ {s} = DOMAIN st1.planBySession \ {s}
    /\ \A t \in DOMAIN st1.planBySession \ {s} :
          st2.planBySession[t] = st1.planBySession[t]

\* C27: from every reachable state and for every session id and plan,
\* setSessionPlan dispatched twice gives the state it gives dispatched once,
\* in which the plan of the session is the plan of the action and all else
\* is as before; and after a step that dispatched setSessionPlan the plan of
\* the session is the one of its last such action.
C27_SetPlanIdempotent ==
    /\ \A s \in SessionIds : \A plan \in PlansFor(s) :
          LET a == [type |-> "setSessionPlan", sessionId |-> s, plan |-> plan]
              once == sessionReducer(state, a, clock)
              twice == sessionReducer(once, a, clock)
          IN  /\ twice = once
              /\ SameButPlanOf(state, once, s)
              /\ once.planBySession[s] = plan
    /\ \A k \in 1..Len(last.actions) :
          LET a == last.actions[k]
          IN  (/\ a.type = "setSessionPlan"
               /\ \A j \in (k + 1)..Len(last.actions) :
                     last.actions[j].type \notin {"setSessionPlan", "clearWorkspaceSessions"})
                => /\ a.sessionId \in DOMAIN state.planBySession
                   /\ state.planBySession[a.sessionId] = a.plan

\* a plan update has set the plan of a session while another session has a
\* plan entry, and the other entry is as it was
C27_Witness ==
    \E k \in 1..Len(last.actions) :
        LET a == last.actions[k]
        IN  /\ a.type = "setSessionPlan"
            /\ a.plan # NullPlan
            /\ state.planBySession[a.sessionId] = a.plan
            /\ \E t \in DOMAIN last.before.planBySession \ {a.sessionId} :
                  state.planBySession[t] = last.before.planBySession[t]

\* the envelope is a tool_call for a session, with a tool call id and a title
IsToolCall(env) ==
    /\ env.method = "session/update"
    /\ "params" \in DOMAIN env
    /\ Get(env.params, "sessionId", "") # ""
    /\ "update" \in DOMAIN env.params
    /\ Get(env.params.update, "sessionUpdate", "") = "tool_call"
    /\ Get(env.params.update, "toolCallId", "") # ""
    /\ "title" \in DOMAIN env.params.update

\* the paths of the entries of type diff that have one, in their order
RECURSIVE DiffPaths(_)
DiffPaths(entries) ==
    IF entries = << >> THEN << >>
    ELSE (IF /\ IsObject(Head(entries))
             /\ Get(Head(entries), "type", "") = "diff"
             /\ Get(Head(entries), "path", "") # ""
          THEN <<Head(entries).path>> ELSE << >>) \o DiffPaths(Tail(entries))

\* the changes of the item id among the items, none without the item
ChangesOf(items, id) ==
    IF FindIndex(items, id) = -1 THEN << >>
    ELSE Get(items[FindIndex(items, id) + 1], "changes", << >>)

\* C28: after the listener of the envelope's workspace has handled a
\* tool_call envelope for the session S with the tool call id T, the kind K
\* and the title X, the items of S hold an item tool-S-T that is a tool with
\* the title "K: X", or X without a kind, and the status of the envelope, or
\* pending without one; and its changes are those it had before followed by
\* one entry for each content entry of type diff with a path P, in their
\* order, with the path P and a diff that starts with "--- P".
C28_ToolCallItem ==
    (last.op = "deliver" /\ IsToolCall(last.arg) /\ last.arg.workspaceId = last.ws) =>
        LET update == last.arg.params.update
            S == last.arg.params.sessionId
            id == "tool-" \o S \o "-" \o update.toolCallId
            items == ItemsOf(state, S)
            idx == FindIndex(items, id)
            item == items[idx + 1]
            before == ChangesOf(ItemsOf(last.before, S), id)
            paths == IF "content" \in DOMAIN update /\ IsObject(update.content)
                     THEN DiffPaths(update.content.list) ELSE << >>
            changes == Get(item, "changes", << >>)
        IN  /\ idx # -1
            /\ item.kind = "tool"
            /\ item.title = IF Get(update, "kind", "") # ""
                            THEN update.kind \o ": " \o update.title
                            ELSE update.title
            /\ item.status = Get(update, "status", "pending")
            /\ Len(changes) = Len(before) + Len(paths)
            /\ SubSeq(changes, 1, Len(before)) = before
            /\ \A j \in 1..Len(paths) :
                  LET change == changes[Len(before) + j]
                  IN  /\ change.path = paths[j]
                      /\ Len(change.diff) >= 2
                      /\ SubSeq(change.diff, 1, 2) = <<"--- ", paths[j]>>

\* the tool call "execute: run tests" came a second time: the item
\* tool-s2-c2 is pending and has the changes of a.txt and b.txt twice, in
\* the order of the entries
C28_Witness ==
    /\ last.op = "deliver"
    /\ IsToolCall(last.arg)
    /\ last.arg.workspaceId = last.ws
    /\ LET items == ItemsOf(state, "s2")
           idx == FindIndex(items, "tool-s2-c2")
       IN  /\ idx # -1
           /\ items[idx + 1].title = "execute: run tests"
           /\ items[idx + 1].status = "pending"
           /\ Len(ChangesOf(ItemsOf(last.before, "s2"), "tool-s2-c2")) = 2
           /\ Len(items[idx + 1].changes) = 4
           /\ items[idx + 1].changes[3].path = "a.txt"
           /\ items[idx + 1].changes[4].path = "b.txt"

\* the subscriptions whose listener is registered and not released
LiveSubs == {i \in 1..Len(subs) : subs[i].st = "live"}

\* C29: at every moment at most one subscription opened by the controller is
\* live, and it is the one opened for the active workspace: the subscription
\* of the previous workspace is released by the change of workspace, also when
\* the change precedes the completion of its registration.
C29_SingleLiveSubscription ==
    /\ Cardinality(LiveSubs) <= 1
    /\ \A i \in LiveSubs : subs[i].ws = workspaceId

-----------------------------------------------------------------------------
(* The controller from the moment a session is listed: workspace A is       *)
(* active, the registration of its listener has completed and               *)
(* session/created has listed s1.  The steps are those of the controller.   *)

\* the reducer state after the effect for A ran and session/created(s1) came
ListedState ==
    LET cleared == Fold(initialState,
                        <<[type |-> "clearWorkspaceSessions", workspaceId |-> "A"]>>, 0)
        created == HandleEvent("A", Envelope("A", 2, 0), EmptyObj, EmptyObj, 0, 0)
    IN  Fold(cleared, created.actions, 0)

InitTurns ==
    /\ state = ListedState
    /\ clock = 0
    /\ workspaceId = "A"
    /\ subs = <<[ws |-> "A", st |-> "live"]>>
    /\ unlistenRef = 1
    /\ assistantRef = EmptyObj
    /\ reasoningRef = EmptyObj
    /\ inflight = {}
    /\ fault = FALSE
    /\ last = [op |-> "init", actions |-> << >>, now |-> 0, before |-> ListedState,
               ws |-> Null, arg |-> Null, refs |-> <<EmptyObj, EmptyObj>>,
               result |-> NoResult]
    /\ toolLog = EmptyObj
    /\ underWs = [w \in Workspaces |-> IF w = "A" THEN {"s1"} ELSE {}]
    /\ tornDown = {}
    /\ previousWorkspaceId = Null
    /\ openTurns = EmptyObj
    /\ reasoningLog = EmptyObj
    /\ nsteps = 0
    /\ handoff = Mount(NoProps, EmptyObj, "ok", 0)

\* the envelopes of a turn: session/created for s2, an assistant text chunk
\* and a reasoning chunk for s1 and for s2, turn/completed for s1 and for s2
TurnEnvelopeIds == {3, 13, 14, 24, 25, 31, 32}

\* the backend emits an envelope of a turn; the listener runs its callback
DeliverTurnEvent ==
    \E i \in 1..Len(subs), k \in TurnEnvelopeIds :
        /\ subs[i].st = "live"
        /\ nsteps < MaxSteps
        /\ LET env == Envelope(subs[i].ws, k, nsteps)
               r == HandleEvent(subs[i].ws, env, assistantRef, reasoningRef, clock, nsteps)
           IN  Run("deliver", subs[i].ws, env, r.actions, r.assistantRef, r.reasoningRef,
                   r.fault)
        /\ UNCHANGED <<workspaceId, subs, unlistenRef, inflight>>

NextTurns ==
    \/ TickController
    \/ DeliverTurnEvent
    \/ SendMessage
    \/ SendMessageReturns

SpecTurns == InitTurns /\ [][NextTurns]_vars

\* the open turns of the session whose sendOpenCodeMessage has returned
Accepted(s) ==
    LET open == Get(openTurns, s, << >>)
    IN  {j \in DOMAIN open :
            ~\E c \in inflight :
                /\ c.op = "send"
                /\ c.sessionId = s
                /\ AssistantItemId(c.at, c.n) = open[j]}

\* the backend ends a turn it has accepted: it emits turn/completed for the
\* session and the listener of the workspace runs its callback
TurnCompletes ==
    \E i \in 1..Len(subs), s \in SessionIds :
        /\ subs[i].st = "live"
        /\ subs[i].ws = workspaceId
        /\ Accepted(s) # {}
        /\ LET env == Env(subs[i].ws, "turn/completed", [sessionId |-> s])
               r == HandleEvent(subs[i].ws, env, assistantRef, reasoningRef, clock, nsteps)
           IN  Run("deliver", subs[i].ws, env, r.actions, r.assistantRef, r.reasoningRef,
                   r.fault)
        /\ UNCHANGED <<workspaceId, subs, unlistenRef, inflight>>

NextTurnsLive ==
    \/ TickController
    \/ DeliverTurnEvent
    \/ SendMessage
    \/ SendMessageReturns
    \/ TurnCompletes

\* every call of sendOpenCodeMessage settles, and every turn the backend has
\* accepted is ended by a turn/completed; the workspace stays the subscribed one
SpecTurnsLive ==
    /\ InitTurns
    /\ [][NextTurnsLive]_vars
    /\ WF_vars(SendMessageReturns)
    /\ WF_vars(TurnCompletes)

\* the state InitTurns starts from, as the controller reaches it
ListedReached ==
    /\ state = ListedState
    /\ workspaceId = "A"
    /\ subs = <<[ws |-> "A", st |-> "live"]>>
    /\ unlistenRef = 1
    /\ assistantRef = EmptyObj
    /\ reasoningRef = EmptyObj
    /\ inflight = {}
    /\ ~fault
    /\ toolLog = EmptyObj
    /\ underWs = [w \in Workspaces |-> IF w = "A" THEN {"s1"} ELSE {}]
    /\ tornDown = {}
    /\ previousWorkspaceId = Null
    /\ openTurns = EmptyObj
    /\ reasoningLog = EmptyObj
    /\ clock = 0

\* the step was the listener applying an assistant text chunk
IsChunkStep ==
    /\ last.op = "deliver"
    /\ last.arg.method = "session/update"
    /\ last.actions # << >>
    /\ last.actions[1].type = "appendAssistantDelta"

\* the text of the item with the id, empty when no item has the id
TextOf(items, id) ==
    IF FindIndex(items, id) = -1 THEN << >>
    ELSE Get(items[FindIndex(items, id) + 1], "text", << >>)

\* C30: an assistant text chunk for the session S that arrives while a turn
\* that a sendMessage on S started is open (after the send, before the
\* turn/completed of the turn) is appended, at the end of its text, to the
\* assistant item that the send of an open turn pre-created, and the items of
\* the other sessions stay as they were.
C30_ChunkToTurnItem ==
    LET a == last.actions[1]
        open == Get(openTurns, a.sessionId, << >>)
    IN  (IsChunkStep /\ open # << >>)
        => /\ \E j \in DOMAIN open : a.itemId = open[j]
           /\ TextOf(ItemsOf(state, a.sessionId), a.itemId)
                = TextOf(ItemsOf(last.before, a.sessionId), a.itemId) \o a.delta
           /\ \A t \in SessionIds \ {a.sessionId} :
                ItemsOf(state, t) = ItemsOf(last.before, t)

\* the step was the listener applying a reasoning chunk
IsThoughtStep ==
    /\ last.op = "deliver"
    /\ last.arg.method = "session/update"
    /\ last.actions # << >>
    /\ last.actions[1].type = "appendReasoningDelta"

\* the content of the reasoning item with the id, empty when no item has the id
ContentOf(items, id) ==
    IF FindIndex(items, id) = -1 THEN << >>
    ELSE Get(items[FindIndex(items, id) + 1], "content", << >>)

\* C31: the reasoning chunks of a session that arrive between two boundaries
\* (a sendMessage on the session, a turn/completed for it) go to one and the
\* same reasoning item, the id of that item was used for no chunk before the
\* boundary, and the chunk is appended at the end of the item's text.
C31_ReasoningItemPerTurn ==
    /\ \A s \in DOMAIN reasoningLog :
         /\ Cardinality(reasoningLog[s].cur) <= 1
         /\ reasoningLog[s].cur \cap reasoningLog[s].past = {}
    /\ IsThoughtStep
       => LET a == last.actions[1]
          IN  /\ reasoningLog[a.sessionId].cur = {a.itemId}
              /\ ContentOf(ItemsOf(state, a.sessionId), a.itemId)
                   = ContentOf(ItemsOf(last.before, a.sessionId), a.itemId) \o a.delta

\* a second reasoning chunk of a turn went to the item of the first, after an
\* earlier turn of the session had a reasoning item of its own
C31_Witness ==
    /\ IsThoughtStep
    /\ LET a == last.actions[1]
       IN  /\ reasoningLog[a.sessionId].past # {}
           /\ Len(ContentOf(ItemsOf(state, a.sessionId), a.itemId)) = 2

\* the step was the listener of the envelope's workspace receiving a plan
\* update that names its session
IsPlanStep ==
    /\ last.op = "deliver"
    /\ last.arg.workspaceId = last.ws
    /\ last.arg.method = "session/update"
    /\ "params" \in DOMAIN last.arg
    /\ "sessionId" \in DOMAIN last.arg.params
    /\ "update" \in DOMAIN last.arg.params
    /\ IsObject(last.arg.params.update)
    /\ Get(last.arg.params.update, "sessionUpdate", "") = "plan"

\* the entries of the plan update that are objects with a step text
StepEntries ==
    LET entries == last.arg.params.update.entries.list
        HasText(e) == IsObject(e) /\ Get(e, "content", "") # ""
    IN  SelectSeq(entries, HasText)

\* the status of the step built from a kept entry
StepStatusOf(e) ==
    LET raw == Get(e, "status", "missing")
    IN  IF raw = "in_progress" THEN "inProgress"
        ELSE IF raw = "completed" THEN "completed" ELSE "pending"

\* C32: after a plan update for the session S, the plan of S has exactly one
\* step per entry that is an object with a non-empty step text, in the order
\* of the entries, with in_progress mapped to inProgress, completed to
\* completed and anything else to pending, and nothing of the plan S had
\* before; when entries is not a list the state is as it was.
C32_PlanReplaced ==
    IsPlanStep
    => LET update == last.arg.params.update
           S == last.arg.params.sessionId
       IN  IF "entries" \in DOMAIN update /\ IsObject(update.entries)
           THEN LET plan == state.planBySession[S]
                IN  /\ plan.turnId = S
                    /\ Len(plan.steps) = Len(StepEntries)
                    /\ \A j \in DOMAIN plan.steps :
                         /\ plan.steps[j].step = StepEntries[j].content
                         /\ plan.steps[j].status = StepStatusOf(StepEntries[j])
           ELSE state = last.before

\* a plan update replaced a plan with other steps
C32_Witness ==
    /\ IsPlanStep
    /\ IsObject(last.arg.params.update.entries)
    /\ LET S == last.arg.params.sessionId
       IN  /\ S \in DOMAIN last.before.planBySession
           /\ "steps" \in DOMAIN last.before.planBySession[S]
           /\ Len(last.before.planBySession[S].steps) = 2
           /\ \A j \in 1..2 : last.before.planBySession[S].steps[j].step
                                 # state.planBySession[S].steps[j].step

AppendTypes ==
    {"appendAssistantDelta", "appendReasoningDelta", "appendToolOutput",
     "appendToolChanges", "setToolStatus"}

\* the kind of item an append action is for
KindFor(type) ==
    CASE type = "appendAssistantDelta" -> "message"
      [] type = "appendReasoningDelta" -> "reasoning"
      [] OTHER -> "tool"

\* the field of the item an append action writes
FieldFor(type) ==
    CASE type = "appendAssistantDelta" -> "text"
      [] type = "appendReasoningDelta" -> "content"
      [] type = "appendToolOutput" -> "output"
      [] type = "appendToolChanges" -> "changes"
      [] OTHER -> "status"

\* the fields of the minimal item an append action creates
MinimalFields(type) ==
    CASE type = "appendAssistantDelta" -> {"id", "kind", "role", "text"}
      [] type = "appendReasoningDelta" -> {"id", "kind", "summary", "content"}
      [] type = "setToolStatus" -> {"id", "kind", "toolType", "title", "detail", "status"}
      [] OTHER -> {"id", "kind", "toolType", "title", "detail", "status"}
                    \cup {FieldFor(type)}

\* what an append action carries for the field
CarriedBy(a) ==
    CASE a.type = "appendToolChanges" -> <<a.changes>>
      [] a.type = "setToolStatus" -> <<a.status>>
      [] OTHER -> <<a.delta>>

\* the field of an item after the action's value was applied to it
AfterAppend(item, a) ==
    CASE a.type = "setToolStatus" -> <<a.status>>
      [] a.type = "appendToolChanges" -> <<Get(item, "changes", << >>) \o a.changes>>
      [] OTHER -> <<Get(item, FieldFor(a.type), << >>) \o a.delta>>

\* the step dispatched one append action
IsAppendStep ==
    /\ last.op = "dispatch"
    /\ last.actions[1].type \in AppendTypes

\* C33: an append action on the item id X of the session S appends a minimal
\* item of its kind, holding what the action carries, at the end when S has no
\* item X; changes only the field of the first item X, in its place, when that
\* item has the action's kind; and returns the state as it was when that item
\* has another kind.  Nothing else of the state changes.
C33_UpsertById ==
    IsAppendStep
    => LET a == last.actions[1]
           old == ItemsOf(last.before, a.sessionId)
           new == ItemsOf(state, a.sessionId)
           idx == FindIndex(old, a.itemId)
           f == FieldFor(a.type)
       IN  /\ [state EXCEPT !.itemsBySession = last.before.itemsBySession] = last.before
           /\ \A t \in DOMAIN last.before.itemsBySession \ {a.sessionId} :
                ItemsOf(state, t) = ItemsOf(last.before, t)
           /\ IF idx = -1
              THEN /\ new # << >>
                   /\ new[Len(new)].id = a.itemId
                   /\ new[Len(new)].kind = KindFor(a.type)
                   /\ DOMAIN new[Len(new)] = MinimalFields(a.type)
                   /\ <<new[Len(new)][f]>> = CarriedBy(a)
                   /\ Len(new) <= Len(old) + 1
                   /\ SubSeq(new, 1, Len(new) - 1)
                        = SubSeq(old, Len(old) - Len(new) + 2, Len(old))
              ELSE IF old[idx + 1].kind = KindFor(a.type)
              THEN /\ Len(new) = Len(old)
                   /\ \A j \in DOMAIN old : j # idx + 1 => new[j] = old[j]
                   /\ DOMAIN new[idx + 1] = DOMAIN old[idx + 1] \cup {f}
                   /\ \A g \in DOMAIN old[idx + 1] \ {f} : new[idx + 1][g] = old[idx + 1][g]
                   /\ <<new[idx + 1][f]>> = AfterAppend(old[idx + 1], a)
              ELSE state = last.before

\* an append action changed an item of its kind that is not the last of its
\* session
C33_Witness ==
    /\ IsAppendStep
    /\ LET a == last.actions[1]
           old == ItemsOf(last.before, a.sessionId)
           idx == FindIndex(old, a.itemId)
       IN  /\ idx # -1
           /\ idx + 1 < Len(old)
           /\ old[idx + 1].kind = KindFor(a.type)
           /\ state # last.before

\* the step was the listener of the envelope's workspace receiving a tool_call
\* or tool_call_update that names its session and tool call and has no status
\* (or an empty one)
IsStatuslessToolStep ==
    /\ last.op = "deliver"
    /\ last.arg.workspaceId = last.ws
    /\ last.arg.method = "session/update"
    /\ "params" \in DOMAIN last.arg
    /\ Get(last.arg.params, "sessionId", "") # ""
    /\ "update" \in DOMAIN last.arg.params
    /\ IsObject(last.arg.params.update)
    /\ Get(last.arg.params.update, "sessionUpdate", "") \in {"tool_call", "tool_call_update"}
    /\ Get(last.arg.params.update, "toolCallId", "") # ""
    /\ Get(last.arg.params.update, "status", "") = ""

\* the status of the tool item with the id: <<v>>, or << >> when there is no
\* such item or it has no status
ToolStatusOf(items, id) ==
    IF FindIndex(items, id) = -1 THEN << >>
    ELSE LET item == items[FindIndex(items, id) + 1]
         IN  IF item.kind = "tool" /\ "status" \in DOMAIN item THEN <<item.status>>
             ELSE << >>

\* C34: a tool_call or tool_call_update envelope without a status, for a tool
\* item that exists and has a status, leaves the status of that item as it
\* was.
C34_StatusKept ==
    IsStatuslessToolStep
    => LET S == last.arg.params.sessionId
           id == ToolItemId(S, last.arg.params.update.toolCallId)
           before == ToolStatusOf(ItemsOf(last.before, S), id)
       IN  before # << >> => ToolStatusOf(ItemsOf(state, S), id) = before

\* the text is the JSON of an object with the four counters
WellFormedText(text) ==
    /\ text \notin {NoText, EmptyText}
    /\ "value" \in DOMAIN JsonParse(text)
    /\ WellFormed(JsonParse(text).value)

\* C35: after the load effect ran for the triple of the props: without a
\* workspace or an id the baseline is none; with a well-formed baseline
\* persisted under the triple's key, the baseline is that one and the store
\* is as it was; otherwise the baseline has the counters of the snapshot of
\* the current items and plan and is what the store holds under the key.
C35_BaselineLifecycle ==
    handoff.loadRan
    => LET p == handoff.props
           key == baselineKey(p.kind, p.workspaceId, p.id)
           stored == Get(handoff.storeBefore, key, NoText)
       IN  IF ~HasTarget(p) THEN handoff.baseline = NullBaseline
           ELSE IF WellFormedText(stored)
           THEN /\ handoff.baseline = JsonParse(stored).value
                /\ handoff.store = handoff.storeBefore
           ELSE /\ WellFormed(handoff.baseline)
                /\ handoff.baseline.activity = snapshotActivity(p.items, p.plan)
                /\ Get(handoff.store, key, NoText) = JsonStringifyBaseline(handoff.baseline)

\* C36: the timer that is pending was armed at the last render that brought
\* another identity, items array or plan, for the triple of that render; its
\* callback runs no sooner than the idle window after that render, writes to
\* the key of the current triple, and runs at most once until the next such
\* render.
C36_IdleTimer ==
    LET p == handoff.props
    IN  /\ handoff.fires <= 1
        /\ handoff.timer # NoTimer
           => /\ HasTarget(p)
              /\ handoff.fires = 0
              /\ handoff.timer[1].due = handoff.changedAt + BASELINE_RESET_MS
              /\ <<handoff.timer[1].kind, handoff.timer[1].workspaceId, handoff.timer[1].id>>
                    = Identity(p)
        /\ handoff.op = "timer"
           => /\ clock >= handoff.changedAt + BASELINE_RESET_MS
              /\ HasTarget(p)
              /\ handoff.firedKey = baselineKey(p.kind, p.workspaceId, p.id)
              /\ handoff.timer = NoTimer

\* the callback ran once, more than the idle window after the last such
\* render, for a triple that was referenced some time after the mount
C36_Witness ==
    /\ handoff.op = "timer"
    /\ handoff.fires = 1
    /\ handoff.firedKey # StoredKey
    /\ handoff.changedAt > 0
    /\ clock > handoff.changedAt + BASELINE_RESET_MS

\* C37: a session with an outstanding sendMessage (its send was not rejected,
\* the turn/completed that answers it has not arrived, no cancel has succeeded
\* since) is marked processing.
C37_ProcessingWhileOutstanding ==
    \A s \in DOMAIN openTurns :
        openTurns[s] # << >> => StatusField(state, s, "isProcessing") = <<TRUE>>

\* C38: the active session of every workspace is none or a session of the
\* summary list of that workspace.
C38_ActiveIsListed ==
    \A w \in DOMAIN state.activeSessionIdByWorkspace :
        \/ state.activeSessionIdByWorkspace[w] = Null
        \/ state.activeSessionIdByWorkspace[w] \in ListedIds(state, w)

Processing(s) == StatusField(state, s, "isProcessing") = <<TRUE>>

\* C39: when every send settles and every accepted turn is ended by a
\* turn/completed, and the workspace stays the subscribed one, a session that
\* sendMessage marked processing is eventually marked not processing.
C39_ProcessingEnds ==
    \A s \in SessionIds : Processing(s) ~> ~Processing(s)

\* the turn/completed that ends an accepted turn has cleared the flag that
\* sendMessage set, after the last send the bound allows; no call is in flight
\* and no turn is open
C39_Witness ==
    \E s \in SessionIds :
        /\ last.op = "deliver"
        /\ last.arg.method = "turn/completed"
        /\ last.arg.params.sessionId = s
        /\ StatusField(last.before, s, "isProcessing") = <<TRUE>>
        /\ StatusField(state, s, "isProcessing") = <<FALSE>>
        /\ nsteps > MaxSteps
        /\ inflight = {}
        /\ \A t \in DOMAIN openTurns : openTurns[t] = << >>

=============================================================================
